---- MODULE Spec2Model ----
(***************************************************************************)
(* Finding-to-issue synchronizer of vibeCop (scripts/sarif-to-issues.ts,   *)
(* scripts/scoring.ts).  Text is modelled as sequences of one-character    *)
(* strings so that the regular expressions of the source are computed, not *)
(* assumed.                                                                *)
(***************************************************************************)
EXTENDS Integers, Sequences, FiniteSets, TLC

(***************************************************************************)
(* Bounds of the model.                                                    *)
(***************************************************************************)
MaxRuns == 4
MaxFindings == 2
MaxCap == 1
MaxInput == 3
MaxPad == 1
MaxClock == 2

(***************************************************************************)
(* Text helpers: JavaScript string primitives used by the source.          *)
(***************************************************************************)
UpperChars == <<"A","B","C","D","E","F","G","H","I","J","K","L","M",
                "N","O","P","Q","R","S","T","U","V","W","X","Y","Z">>
LowerChars == <<"a","b","c","d","e","f","g","h","i","j","k","l","m",
                "n","o","p","q","r","s","t","u","v","w","x","y","z">>
DigitChars == {"0","1","2","3","4","5","6","7","8","9"}

Range(s) == {s[i] : i \in DOMAIN s}

UpperSet == Range(UpperChars)
UpperToLower == [c \in UpperSet |-> LowerChars[CHOOSE i \in DOMAIN UpperChars : UpperChars[i] = c]]
WordChars == UpperSet \cup Range(LowerChars) \cup DigitChars \cup {"_"}

\* String.prototype.toLowerCase on one character
LowerChar(c) == IF c \in UpperSet THEN UpperToLower[c] ELSE c

toLowerCase(s) == [i \in DOMAIN s |-> LowerChar(s[i])]

\* regular expression classes \s, \d, \w, \S
IsSpace(c) == c = " "
IsDigit(c) == c \in DigitChars
IsWordChar(c) == c \in WordChars

\* text occurs in s at position p (1-based)
MatchAt(s, p, text) ==
  /\ p >= 1
  /\ p + Len(text) - 1 <= Len(s)
  /\ \A i \in 1..Len(text) : s[p + i - 1] = text[i]

\* text occurs in s at position p, letter case ignored (the /i flag); text is
\* in lower case
MatchAtCaseless(s, p, text) ==
  /\ p >= 1
  /\ p + Len(text) - 1 <= Len(s)
  /\ \A i \in 1..Len(text) : LowerChar(s[p + i - 1]) = text[i]

IsNonSpace(c) == ~IsSpace(c)

\* the character classes \s, \w, \d and \S
InClass(c, cls) ==
  CASE cls = "s" -> IsSpace(c)
    [] cls = "w" -> IsWordChar(c)
    [] cls = "d" -> IsDigit(c)
    [] cls = "S" -> IsNonSpace(c)

\* end of the maximal run of characters of class cls that starts at p:
\* the first position q >= p whose character is not in cls (Len(s)+1 at the end)
RunEnd(s, p, cls) ==
  CHOOSE q \in p..(Len(s) + 1) :
    /\ \A i \in p..(q - 1) : InClass(s[i], cls)
    /\ (q = Len(s) + 1 \/ ~InClass(s[q], cls))

Sub(s, from, to) == IF from > to THEN << >> ELSE SubSeq(s, from, to)

\* String.prototype.includes
Includes(s, text) == \E p \in 1..(Len(s) + 1) : MatchAt(s, p, text)

\* decimal rendering of a small natural number
DigitOf(n) == CHOOSE d \in DigitChars :
  d = <<"0","1","2","3","4","5","6","7","8","9">>[n + 1]
RECURSIVE NatToText(_)
NatToText(n) == IF n < 10 THEN <<DigitOf(n)>> ELSE NatToText(n \div 10) \o <<DigitOf(n % 10)>>

(***************************************************************************)
(* Regular expressions of sarif-to-issues.ts over issue and finding titles *)
(***************************************************************************)
Prefix == <<"[","v","i","b","e","C","o","p","]">>
PrefixLower == toLowerCase(Prefix)
NoText == << >>

\* \[vibeCop\]\s+(\w+) at position p; caseless is the /i flag.
\* The result is the span of group 1, or ok = FALSE.
PrefixWordAt(s, p, caseless) ==
  LET q  == p + Len(Prefix)
      w  == RunEnd(s, q, "s")
      e  == RunEnd(s, w, "w")
      at == IF caseless THEN MatchAtCaseless(s, p, PrefixLower) ELSE MatchAt(s, p, Prefix)
  IN IF at /\ w > q /\ e > w
     THEN [ok |-> TRUE, from |-> w, to |-> e - 1]
     ELSE [ok |-> FALSE, from |-> 0, to |-> 0]

\* what follows group 1 (span m) in the pattern below: (?::\s+(\S+)|[\s(])
TitleMatchAfter(s, m) ==
  LET c  == m.to + 1
      r  == RunEnd(s, c + 1, "s")
      re == RunEnd(s, r, "S")
  IN IF ~m.ok \/ c > Len(s) THEN [ok |-> FALSE, tool |-> NoText, rule |-> NoText]
     ELSE IF s[c] = ":" /\ r > c + 1 /\ re > r
       THEN [ok |-> TRUE, tool |-> Sub(s, m.from, m.to), rule |-> Sub(s, r, re - 1)]
     ELSE IF s[c] \in {" ", "("}
       THEN [ok |-> TRUE, tool |-> Sub(s, m.from, m.to), rule |-> NoText]
     ELSE [ok |-> FALSE, tool |-> NoText, rule |-> NoText]

\* /\[vibeCop\]\s+(\w+)(?::\s+(\S+)|[\s(])/i at position p
TitleMatchAt(s, p) == TitleMatchAfter(s, PrefixWordAt(s, p, TRUE))

\* issue.title.match(...) of the fallback index: the leftmost match
TitleMatch(s) ==
  LET ps == {p \in 1..Len(s) : TitleMatchAt(s, p).ok}
  IN IF ps = {} THEN [ok |-> FALSE, tool |-> NoText, rule |-> NoText]
     ELSE TitleMatchAt(s, CHOOSE p \in ps : \A q \in ps : p <= q)

\* finding.title.match(/^(\w+)[\s:(]/): group 1, or NoText when there is no match
FindingSublinter(title) ==
  LET e == RunEnd(title, 1, "w")
  IN IF e > 1 /\ e <= Len(title) /\ title[e] \in {" ", ":", "("}
     THEN Sub(title, 1, e - 1) ELSE NoText

\* extractSublinterFromTitle: /\[vibeCop\]\s+(\w+)[\s:(\-]/i, lowercased group 1;
\* NoText stands for null
extractSublinterFromTitle(title) ==
  LET hit(p) == LET m == PrefixWordAt(title, p, TRUE)
                IN m.ok /\ m.to + 1 <= Len(title)
                        /\ title[m.to + 1] \in {" ", ":", "(", "-"}
      ps == {p \in 1..Len(title) : hit(p)}
  IN IF ps = {} THEN NoText
     ELSE LET m == PrefixWordAt(title, CHOOSE p \in ps : \A q \in ps : p <= q, TRUE)
          IN toLowerCase(Sub(title, m.from, m.to))

\* /\[vibeCop\]\s+\w+:\s+\S+/.test(title)
isSingleRuleTitle(title) ==
  \E p \in 1..Len(title) :
    LET m == PrefixWordAt(title, p, FALSE)
        c == m.to + 1
    IN m.ok /\ c + 1 <= Len(title) /\ title[c] = ":" /\ IsSpace(title[c + 1])
            /\ RunEnd(title, c + 1, "s") <= Len(title)

(***************************************************************************)
(* normalizeIssueTitle (sarif-to-issues.ts 763-771)                        *)
(***************************************************************************)
Occurrence == <<"o","c","c","u","r","r","e","n","c","e">>

\* .replace(/\[vibecop\]\s*/i, ""): the first occurrence only
StripPrefix(s) ==
  LET ps == {p \in 1..Len(s) : MatchAtCaseless(s, p, PrefixLower)}
  IN IF ps = {} THEN s
     ELSE LET p == CHOOSE x \in ps : \A y \in ps : x <= y
              e == RunEnd(s, p + Len(PrefixLower), "s")
          IN Sub(s, 1, p - 1) \o Sub(s, e, Len(s))

\* end (exclusive) of a match of /\s*\(\d+\s*occurrences?\)/i at p, or 0
OccurrenceMatchEnd(s, p) ==
  LET a == RunEnd(s, p, "s")
      d == RunEnd(s, a + 1, "d")
      k == RunEnd(s, d, "s")
      z == k + Len(Occurrence)
  IN IF a <= Len(s) /\ s[a] = "(" /\ d > a + 1 /\ MatchAtCaseless(s, k, Occurrence)
     THEN IF z + 1 <= Len(s) /\ LowerChar(s[z]) = "s" /\ s[z + 1] = ")" THEN z + 2
          ELSE IF z <= Len(s) /\ s[z] = ")" THEN z + 1
          ELSE 0
     ELSE 0

\* .replace(/\s*\(\d+\s*occurrences?\)/gi, ""): every occurrence, left to right
RECURSIVE StripOccurrences(_, _)
StripOccurrences(s, p) ==
  IF p > Len(s) THEN << >>
  ELSE LET e == OccurrenceMatchEnd(s, p)
       IN IF e > 0 THEN StripOccurrences(s, e)
          ELSE <<s[p]>> \o StripOccurrences(s, p + 1)

\* /\s+in\s+\S+$/ matches at p
InSuffixAt(s, p) ==
  LET a == RunEnd(s, p, "s")
      b == RunEnd(s, a + 2, "s")
  IN /\ a > p
     /\ MatchAt(s, a, <<"i", "n">>)
     /\ b > a + 2
     /\ b <= Len(s)
     /\ RunEnd(s, b, "S") = Len(s) + 1

\* .replace(/\s+in\s+\S+$/, "")
StripInSuffix(s) ==
  LET ps == {p \in 1..Len(s) : InSuffixAt(s, p)}
  IN IF ps = {} THEN s
     ELSE Sub(s, 1, (CHOOSE x \in ps : \A y \in ps : x <= y) - 1)

\* .replace(/\s+/g, " ")
RECURSIVE CollapseSpaces(_, _)
CollapseSpaces(s, p) ==
  IF p > Len(s) THEN << >>
  ELSE IF IsSpace(s[p]) THEN <<" ">> \o CollapseSpaces(s, RunEnd(s, p, "s"))
  ELSE <<s[p]>> \o CollapseSpaces(s, p + 1)

\* String.prototype.trim
Trim(s) ==
  LET a == RunEnd(s, 1, "s")
  IN IF a > Len(s) THEN << >>
     ELSE Sub(s, a, CHOOSE e \in a..Len(s) :
                      ~IsSpace(s[e]) /\ \A i \in (e + 1)..Len(s) : IsSpace(s[i]))

normalizeIssueTitle(title) ==
  Trim(CollapseSpaces(StripInSuffix(StripOccurrences(StripPrefix(toLowerCase(title)), 1)), 1))

(***************************************************************************)
(* Title rendering (sarif-to-issues.ts 353-391)                            *)
(***************************************************************************)
TitleMaxLen == 100
Ellipsis == <<".", ".", ".">>

\* text.lastIndexOf(" ", from) as a 1-based position, 0 for "not found" (-1)
LastSpaceAtOrBefore(text, pos) ==
  LET ps == {p \in 1..pos : p <= Len(text) /\ text[p] = " "}
  IN IF ps = {} THEN 0 ELSE CHOOSE p \in ps : \A q \in ps : q <= p

\* never cuts at a word boundary
truncateAtLimit(text, maxLen) ==
  IF Len(text) <= maxLen THEN text ELSE Sub(text, 1, maxLen - 3) \o Ellipsis

truncateAtWordBoundary(text, maxLen) ==
  IF Len(text) <= maxLen THEN text
  ELSE LET truncateAt == maxLen - 3
           \* 0-based index of the source
           lastSpace  == LastSpaceAtOrBefore(text, truncateAt + 1) - 1
       IN IF lastSpace > truncateAt - 20 /\ lastSpace > 0
          THEN Sub(text, 1, lastSpace) \o Ellipsis
          ELSE Sub(text, 1, truncateAt) \o Ellipsis

\* l.path.split("/").pop()
Basename(path) ==
  LET ps == {p \in 1..Len(path) : path[p] = "/"}
  IN IF ps = {} THEN path
     ELSE Sub(path, (CHOOSE p \in ps : \A q \in ps : q <= p) + 1, Len(path))

\* [...new Set(xs)]: the distinct elements in order of first occurrence
RECURSIVE Distinct(_)
Distinct(xs) ==
  IF xs = << >> THEN << >>
  ELSE LET front == Distinct(Sub(xs, 1, Len(xs) - 1))
           last  == xs[Len(xs)]
       IN IF last \in Range(front) THEN front ELSE Append(front, last)

\* the location hint of a title: the first file name, and the number of
\* further files when there are two or three
locationHint(finding) ==
  LET uniqueFiles == Distinct([i \in DOMAIN finding.locations |->
                                 Basename(finding.locations[i].path)])
  IN IF Len(finding.locations) = 0 THEN << >>
     ELSE IF Len(uniqueFiles) = 1 THEN <<" ","i","n"," ">> \o uniqueFiles[1]
     ELSE IF Len(uniqueFiles) <= 3
       THEN <<" ","i","n"," ">> \o uniqueFiles[1] \o <<" ","+">>
            \o NatToText(Len(uniqueFiles) - 1) \o <<" ","m","o","r","e">>
     ELSE << >>

generateIssueTitle(finding) ==
  truncateAtWordBoundary(Prefix \o <<" ">> \o finding.title \o locationHint(finding),
                         TitleMaxLen)

(***************************************************************************)
(* Scoring thresholds (scoring.ts 27-84, 824-834)                          *)
(***************************************************************************)
SEVERITY_ORDER == [info |-> 0, low |-> 1, medium |-> 2, high |-> 3, critical |-> 4]
CONFIDENCE_ORDER == [low |-> 1, medium |-> 2, high |-> 3]

meetsSeverityThresholdInverted(severity, threshold) ==
  SEVERITY_ORDER[severity] <= SEVERITY_ORDER[threshold]

meetsSeverityThreshold(severity, threshold) ==
  SEVERITY_ORDER[severity] >= SEVERITY_ORDER[threshold]

meetsConfidenceThreshold(confidence, threshold) ==
  CONFIDENCE_ORDER[confidence] >= CONFIDENCE_ORDER[threshold]

meetsThresholds(severity, confidence, severityThreshold, confidenceThreshold) ==
  /\ meetsSeverityThreshold(severity, severityThreshold)
  /\ meetsConfidenceThreshold(confidence, confidenceThreshold)

(***************************************************************************)
(* Fingerprints and deduplication (scripts/fingerprints.ts is not part of  *)
(* the sources at hand; these follow sections 4.2 and 4.3 of the           *)
(* specification).                                                         *)
(***************************************************************************)
LINE_BUCKET_SIZE == 20
FLAP_PROTECTION_RUNS == 3

\* quoted literals stripped: the text between two single quotes, quotes included
RECURSIVE StripQuoted(_, _)
StripQuoted(s, p) ==
  IF p > Len(s) THEN << >>
  ELSE IF s[p] = "'" /\ \E q \in (p + 1)..Len(s) : s[q] = "'"
    THEN StripQuoted(s, (CHOOSE q \in (p + 1)..Len(s) :
                           s[q] = "'" /\ \A r \in (p + 1)..(q - 1) : s[r] # "'") + 1)
  ELSE <<s[p]>> \o StripQuoted(s, p + 1)

StripDigits(s) == SelectSeq(s, LAMBDA c : ~IsDigit(c))

\* lowercased, whitespace-collapsed, numerals and quoted literals stripped
normalizeMessage(message) ==
  Trim(CollapseSpaces(StripDigits(StripQuoted(toLowerCase(message), 1)), 1))

lineBucketExact(startLine) == startLine

lineBucket(startLine) == startLine \div LINE_BUCKET_SIZE

\* The digest is taken to be collision free: it is represented by the tuple it
\* is computed from.
computeFingerprint(tool, ruleId, path, startLine, message) ==
  <<tool, ruleId, path, lineBucket(startLine), normalizeMessage(message)>>

NoFingerprint == << >>

\* metadata.lastSeenRun of a body without a readable run marker: undefined
NoRun == -1

DedupLocationsKeepAll(locs) == locs

\* locations deduplicated by (path, startLine), first occurrence kept
RECURSIVE DedupLocations(_)
DedupLocations(locs) ==
  IF locs = << >> THEN << >>
  ELSE LET front == DedupLocations(Sub(locs, 1, Len(locs) - 1))
           last  == locs[Len(locs)]
       IN IF \E i \in DOMAIN front :
               front[i].path = last.path /\ front[i].startLine = last.startLine
          THEN front ELSE Append(front, last)

\* group by fingerprint in order of first occurrence; the first member of a
\* group is kept, its locations are those of every member
RECURSIVE deduplicateFindings(_)
deduplicateFindings(fs) ==
  IF fs = << >> THEN << >>
  ELSE LET front == deduplicateFindings(Sub(fs, 1, Len(fs) - 1))
           last  == fs[Len(fs)]
           hits  == {i \in DOMAIN front : front[i].fingerprint = last.fingerprint}
       IN IF hits = {}
          THEN Append(front, [last EXCEPT !.locations = DedupLocations(@)])
          ELSE LET i == CHOOSE x \in hits : TRUE
               IN [front EXCEPT ![i].locations = DedupLocations(@ \o last.locations)]

(***************************************************************************)
(* The findings the runs draw from.                                        *)
(***************************************************************************)
T_eslint == <<"e","s","l","i","n","t">>
T_trunk == <<"t","r","u","n","k">>
T_noUnusedVars == <<"n","o","-","u","n","u","s","e","d","-","v","a","r","s">>
T_truthy == <<"t","r","u","t","h","y">>
T_braces == <<"b","r","a","c","e","s">>
T_truthyBraces == <<"t","r","u","t","h","y","+","b","r","a","c","e","s">>
T_srcA == <<"s","r","c","/","a",".","t","s">>
T_aYaml == <<"c","i","/","a",".","y","a","m","l">>
T_bYaml == <<"c","i","/","b",".","y","a","m","l">>
T_unusedTitle == <<"U","n","u","s","e","d"," ","v","a","r","i","a","b","l","e">>
T_msgX == <<"'","x","'"," ","i","s"," ","d","e","f","i","n","e","d"," ","b","u","t"," ","n","e","v","e","r"," ","u","s","e","d">>
T_msgY == <<"'","y","'"," ","i","s"," "," ","d","e","f","i","n","e","d"," ","b","u","t"," ","n","e","v","e","r"," ","u","s","e","d">>
T_yamlTruthyTitle == <<"y","a","m","l","l","i","n","t",":"," ","t","r","u","t","h","y">>
T_yamlBracesTitle == <<"y","a","m","l","l","i","n","t",":"," ","b","r","a","c","e","s">>
T_yamlMergedTitle == <<"y","a","m","l","l","i","n","t"," ","(","2"," ","i","s","s","u","e","s"," ","a","c","r","o","s","s"," ","2"," ","f","i","l","e","s",")">>
T_msgTruthy == <<"t","r","u","t","h","y"," ","v","a","l","u","e"," ","s","h","o","u","l","d"," ","b","e"," ","o","n","e"," ","o","f"," ","[","f","a","l","s","e",","," ","t","r","u","e","]">>
T_msgBraces == <<"t","o","o"," ","m","a","n","y"," ","s","p","a","c","e","s"," ","i","n","s","i","d","e"," ","b","r","a","c","e","s">>
T_msgMerged == <<"2"," ","y","a","m","l","l","i","n","t"," ","i","s","s","u","e","s">>
T_knip == <<"k","n","i","p">>
T_files == <<"f","i","l","e","s">>
T_knipFilesTitle == <<"k","n","i","p",":"," ","f","i","l","e","s">>
T_msgUnusedFile == <<"U","n","u","s","e","d"," ","f","i","l","e">>

Loc(path, startLine) == [path |-> path, startLine |-> startLine]

\* a normalized finding as the parsers deliver it (types.ts Finding); the
\* canonical location is locations[1]
MkFinding(tool, ruleId, title, message, severity, confidence, effort, layer, autofix, locations) ==
  [tool |-> tool, ruleId |-> ruleId, title |-> title, message |-> message,
   severity |-> severity, confidence |-> confidence, effort |-> effort,
   layer |-> layer, autofix |-> autofix, locations |-> locations,
   fingerprint |-> computeFingerprint(tool, ruleId, locations[1].path,
                                      locations[1].startLine, message)]

Catalogue == <<
  \* an eslint finding at line 42, the same finding drifted to line 48, and
  \* drifted into the next bucket at line 61
  MkFinding(T_eslint, T_noUnusedVars, T_unusedTitle, T_msgX, "medium", "high", "S", "code",
            "none", <<Loc(T_srcA, 42)>>),
  MkFinding(T_eslint, T_noUnusedVars, T_unusedTitle, T_msgY, "medium", "high", "S", "code",
            "none", <<Loc(T_srcA, 48)>>),
  MkFinding(T_eslint, T_noUnusedVars, T_unusedTitle, T_msgX, "medium", "high", "S", "code",
            "none", <<Loc(T_srcA, 61)>>),
  \* trunk sublinter findings: two single rules and their merged form
  MkFinding(T_trunk, T_truthy, T_yamlTruthyTitle, T_msgTruthy, "low", "low", "S", "code",
            "safe", <<Loc(T_aYaml, 3)>>),
  MkFinding(T_trunk, T_braces, T_yamlBracesTitle, T_msgBraces, "low", "medium", "S", "code",
            "none", <<Loc(T_bYaml, 5)>>),
  MkFinding(T_trunk, T_truthyBraces, T_yamlMergedTitle, T_msgMerged, "high", "high", "M", "code",
            "none", <<Loc(T_aYaml, 3), Loc(T_bYaml, 5)>>),
  \* a finding whose title reads "tool: ruleId" (511), at line 42 and drifted
  \* into the next bucket at line 61
  MkFinding(T_knip, T_files, T_knipFilesTitle, T_msgUnusedFile, "medium", "medium", "S", "code",
            "none", <<Loc(T_srcA, 42)>>),
  MkFinding(T_knip, T_files, T_knipFilesTitle, T_msgUnusedFile, "medium", "medium", "S", "code",
            "none", <<Loc(T_srcA, 61)>>) >>

\* the findings of one repository: a run reports a list drawn from one family
Families == << {1, 2, 3}, {4, 5, 6}, {7, 8} >>

(***************************************************************************)
(* Labels (sarif-to-issues.ts 396-416)                                     *)
(***************************************************************************)
T_testFixtures == <<"t","e","s","t","-","f","i","x","t","u","r","e","s","/">>

\* isTestFixtureFinding (fingerprints.ts, by section 4.6 of the specification):
\* some location lies under a test-fixture path
isTestFixtureFinding(finding) ==
  \E i \in DOMAIN finding.locations : Includes(finding.locations[i].path, T_testFixtures)

\* a label "<kind>:<value>" is the pair <<kind, value>>; the base label is
\* <<"base", label>>
\* never adds the autofix label
getLabelsWithoutAutofix(finding, baseLabel) ==
  << <<"base", baseLabel>>,
     <<"severity", finding.severity>>,
     <<"confidence", finding.confidence>>,
     <<"effort", finding.effort>>,
     <<"layer", finding.layer>>,
     <<"tool", finding.tool>> >>

getLabelsForFinding(finding, baseLabel) ==
  << <<"base", baseLabel>>,
     <<"severity", finding.severity>>,
     <<"confidence", finding.confidence>>,
     <<"effort", finding.effort>>,
     <<"layer", finding.layer>>,
     <<"tool", finding.tool>> >>
  \o (IF finding.autofix = "safe" THEN << <<"autofix", "safe">> >> ELSE << >>)
  \o (IF isTestFixtureFinding(finding) THEN << <<"demo", "">> >> ELSE << >>)

(***************************************************************************)
(* Issue bodies and the tracker (scripts/github.ts is not part of the      *)
(* sources at hand; the operations follow section 4.4 of the               *)
(* specification).  Of a body only the two hidden markers are kept.        *)
(***************************************************************************)
\* generateIssueBody: the fingerprint marker and the run metadata marker
\* (sarif-to-issues.ts 343-344)
\* writes the clock reading where the run number belongs
generateIssueBodyRunFromClock(finding, runNo, now) ==
  [fingerprintMarker |-> finding.fingerprint, runMarker |-> now, generated |-> now]

generateIssueBodyNoMarker(finding, runNo, now) ==
  [fingerprintMarker |-> NoFingerprint, runMarker |-> runNo, generated |-> now]

\* now is the reading of the clock, new Date().toISOString() (192)
generateIssueBody(finding, runNo, now) ==
  [fingerprintMarker |-> finding.fingerprint, runMarker |-> runNo, generated |-> now]

\* metadata parsed from the markers of a body
parseMetadata(body) ==
  [fingerprint |-> body.fingerprintMarker, lastSeenRun |-> body.runMarker]

\* searchIssuesByLabel: every issue (any state) bearing the label, as ExistingIssue
searchIssuesByLabel(issues, label) ==
  LET view(i) == [number |-> issues[i].number, state |-> issues[i].state,
                  title |-> issues[i].title, labels |-> issues[i].labels,
                  metadata |-> parseMetadata(issues[i].body)]
      RECURSIVE collect(_)
      collect(n) ==
        IF n = 0 THEN << >>
        ELSE IF \E k \in DOMAIN issues[n].labels : issues[n].labels[k] = <<"base", label>>
          THEN Append(collect(n - 1), view(n))
        ELSE collect(n - 1)
  IN collect(Len(issues))

\* buildFingerprintMap: fingerprint -> position in existingIssues
buildFingerprintMap(existing) ==
  LET fps == {existing[i].metadata.fingerprint : i \in DOMAIN existing} \ {NoFingerprint}
  IN [fp \in fps |->
        CHOOSE i \in DOMAIN existing :
          /\ existing[i].metadata.fingerprint = fp
          /\ \A j \in DOMAIN existing : existing[j].metadata.fingerprint = fp => i <= j]

createIssue(issues, title, body, labels) ==
  Append(issues, [number |-> Len(issues) + 1, state |-> "open", title |-> title,
                  body |-> body, labels |-> labels])

updateIssue(issues, number, title, body, labels) ==
  [issues EXCEPT ![number].title = title, ![number].body = body, ![number].labels = labels]

closeIssue(issues, number) == [issues EXCEPT ![number].state = "closed"]

(***************************************************************************)
(* processFindings (sarif-to-issues.ts 434-653)                            *)
(***************************************************************************)
Sublinters == { <<"y","a","m","l","l","i","n","t">>,
                <<"m","a","r","k","d","o","w","n","l","i","n","t">>,
                <<"c","h","e","c","k","o","v">>,
                <<"o","s","v","-","s","c","a","n","n","e","r">>,
                <<"p","r","e","t","t","i","e","r">> }

\* existingIssue of the first probe, or of the second when the first is undefined
orElse(first, second) == IF first # 0 THEN first ELSE second

\* least element of a nonempty set of numbers, 0 for the empty set
FirstOf(S) == IF S = {} THEN 0 ELSE CHOOSE i \in S : \A j \in S : i <= j

\* the title match m gives the key "tool|ruleId" of toolRuleMap (516-526)
hasToolRuleKey(m, tool, ruleId) ==
  m.ok /\ m.rule # NoText /\ toLowerCase(m.tool) = tool /\ toLowerCase(m.rule) = ruleId

\* the title match m gives the key "trunk|sublinter" of sublinterMap (528-541)
hasSublinterKey(m, sublinter) ==
  m.ok /\ toLowerCase(m.tool) \in Sublinters /\ toLowerCase(m.tool) = sublinter

\* toolRuleMap.get(key): the first existing issue whose title reads
\* "[vibeCop] tool: ruleId ..." with that tool and rule; 0 for undefined
toolRuleLookup(existing, tool, ruleId) ==
  FirstOf({i \in DOMAIN existing : hasToolRuleKey(TitleMatch(existing[i].title), tool, ruleId)})

\* sublinterMap.get("trunk|" + sublinter): the first existing issue whose title
\* starts with that sublinter of trunk; 0 for undefined
sublinterLookup(existing, sublinter) ==
  FirstOf({i \in DOMAIN existing : hasSublinterKey(TitleMatch(existing[i].title), sublinter)})

\* fallback 2 (558-565): trunk findings are looked up by the sublinter their
\* title starts with
sublinterFallback(existing, finding, sub) ==
  IF toLowerCase(finding.tool) = T_trunk /\ sub # NoText
  THEN sublinterLookup(existing, toLowerCase(sub)) ELSE 0

\* fallback 1, then fallback 2 when fallback 1 found nothing (552-565)
fallbackLookup(existing, finding) ==
  orElse(toolRuleLookup(existing, toLowerCase(finding.tool), toLowerCase(finding.ruleId)),
         sublinterFallback(existing, finding, FindingSublinter(finding.title)))

\* the cascade without its first probe
lookupIssueNoPrimary(fingerprintMap, existing, finding) ==
  [at |-> fallbackLookup(existing, finding), fallback |-> TRUE]

\* the lookup cascade of one finding (546-578): position of the matched
\* existing issue (0: none) and whether it was found by a fallback
lookupIssue(fingerprintMap, existing, finding) ==
  IF finding.fingerprint \in DOMAIN fingerprintMap
  THEN [at |-> fingerprintMap[finding.fingerprint], fallback |-> FALSE]
  ELSE [at |-> fallbackLookup(existing, finding), fallback |-> TRUE]

\* the cap test of the creation branch (603)
capReachedStrict(created, max_new_per_run) == created > max_new_per_run
capReached(created, max_new_per_run) == created >= max_new_per_run

\* the state test of the update branch (582): closed issues are not reopened
mayUpdateAnyState(issue) == TRUE
mayUpdate(issue) == issue.state = "open"

\* the body of the loop (551-624) once the lookup gave hit and the title is
\* rendered; st holds the tracker and the run's fingerprintMap,
\* seenFingerprints, stats and operations
reconcile(st, existing, finding, conf, runNo, now, hit, title) ==
  LET found == hit.at # 0
      issue == existing[hit.at]
      seen1 == st.seenFingerprints \cup {finding.fingerprint}
      seen2 == IF found /\ hit.fallback /\ issue.metadata.fingerprint # NoFingerprint
               THEN seen1 \cup {issue.metadata.fingerprint} ELSE seen1
      map2  == IF found /\ hit.fallback
               THEN [fp \in DOMAIN st.fingerprintMap \cup {finding.fingerprint} |->
                       IF fp = finding.fingerprint THEN hit.at ELSE st.fingerprintMap[fp]]
               ELSE st.fingerprintMap
      body   == generateIssueBody(finding, runNo, now)
      labels == getLabelsForFinding(finding, conf.label)
  IN IF found
     THEN IF mayUpdate(issue)
          THEN [st EXCEPT
                  !.seenFingerprints = seen2, !.fingerprintMap = map2,
                  !.tracker = updateIssue(@, issue.number, title, body, labels),
                  !.stats.updated = @ + 1,
                  !.ops = Append(@, [op |-> "update", number |-> issue.number,
                                     fingerprint |-> finding.fingerprint,
                                     title |-> title, body |-> body,
                                     labels |-> labels])]
          ELSE [st EXCEPT !.seenFingerprints = seen2, !.fingerprintMap = map2]
     ELSE IF capReached(st.stats.created, conf.max_new_per_run)
          THEN [st EXCEPT !.seenFingerprints = seen2,
                          !.stats.skippedMaxReached = @ + 1]
          ELSE [st EXCEPT
                  !.seenFingerprints = seen2,
                  !.tracker = createIssue(@, title, body, labels),
                  !.stats.created = @ + 1,
                  !.ops = Append(@, [op |-> "create", number |-> Len(st.tracker) + 1,
                                     fingerprint |-> finding.fingerprint,
                                     title |-> title, body |-> body,
                                     labels |-> labels])]

\* one iteration of the loop over actionableFindings (546-625)
processFinding(st, existing, finding, conf, runNo, now) ==
  reconcile(st, existing, finding, conf, runNo, now,
            lookupIssue(st.fingerprintMap, existing, finding), generateIssueTitle(finding))

(***************************************************************************)
(* Post passes (sarif-to-issues.ts 660-880)                                *)
(***************************************************************************)
\* the flap test of closeResolvedIssues (853)
flapNeverExpires(consecutiveMisses) == FALSE
flapExpiredEarly(consecutiveMisses) == consecutiveMisses >= 1
flapExpiredLate(consecutiveMisses) == consecutiveMisses > FLAP_PROTECTION_RUNS
flapExpired(consecutiveMisses) == consecutiveMisses >= FLAP_PROTECTION_RUNS

\* closeResolvedIssues, issues 1..n of existingIssues handled (832-880)
RECURSIVE closeResolvedUpTo(_, _, _, _)
closeResolvedUpTo(st, existing, currentRun, n) ==
  IF n = 0 THEN st
  ELSE LET prev  == closeResolvedUpTo(st, existing, currentRun, n - 1)
           issue == existing[n]
           \* issue.metadata.lastSeenRun || 0
           lastSeenRun == IF issue.metadata.lastSeenRun = NoRun THEN 0
                          ELSE issue.metadata.lastSeenRun
           consecutiveMisses == currentRun - lastSeenRun
       IN IF \/ issue.state # "open"
             \/ issue.metadata.fingerprint = NoFingerprint
             \/ issue.metadata.fingerprint \in st.seenFingerprints
          THEN prev
          ELSE IF flapExpired(consecutiveMisses)
          THEN [prev EXCEPT
                  !.tracker = closeIssue(@, issue.number),
                  !.stats.closed = @ + 1,
                  !.ops = Append(@, [op |-> "close", number |-> issue.number,
                                     why |-> "resolved", misses |-> consecutiveMisses])]
          ELSE [prev EXCEPT
                  !.ops = Append(@, [op |-> "comment", number |-> issue.number,
                                     why |-> "not-detected",
                                     remaining |-> FLAP_PROTECTION_RUNS - consecutiveMisses])]

closeResolvedIssues(st, existing, currentRun) ==
  closeResolvedUpTo(st, existing, currentRun, Len(existing))

\* isSupersededByMergedFinding (673-717)
isSupersededByMergedFinding(issue, findings, seenFingerprints) ==
  LET issueSublinter == extractSublinterFromTitle(issue.title)
      isMergedFinding(f) ==
        \/ Includes(f.ruleId, <<"+">>)
        \/ Includes(f.title, <<"i","s","s","u","e","s"," ","a","c","r","o","s","s">>)
        \/ Includes(f.title, <<"o","c","c","u","r","r","e","n","c","e","s",")">>)
  IN /\ ~(/\ issue.metadata.fingerprint # NoFingerprint
          /\ issue.metadata.fingerprint \in seenFingerprints)
     /\ issueSublinter # NoText
     /\ isSingleRuleTitle(issue.title)
     /\ \E i \in DOMAIN findings :
          /\ findings[i].tool = T_trunk
          /\ extractSublinterFromTitle(findings[i].title) = issueSublinter
          /\ isMergedFinding(findings[i])

\* closeSupersededIssues, issues 1..n of existingIssues handled (722-756)
RECURSIVE closeSupersededUpTo(_, _, _, _)
closeSupersededUpTo(st, existing, findings, n) ==
  IF n = 0 THEN st
  ELSE LET prev  == closeSupersededUpTo(st, existing, findings, n - 1)
           issue == existing[n]
       IN IF issue.state = "open"
             /\ isSupersededByMergedFinding(issue, findings, st.seenFingerprints)
          THEN [prev EXCEPT
                  !.tracker = closeIssue(@, issue.number),
                  !.stats.closed = @ + 1,
                  !.ops = Append(@, [op |-> "close", number |-> issue.number,
                                     why |-> "superseded", misses |-> 0])]
          ELSE prev

closeSupersededIssues(st, existing, findings) ==
  closeSupersededUpTo(st, existing, findings, Len(existing))

\* the open issues of existingIssues that share the normalized title of issue i
duplicateGroup(existing, i) ==
  {j \in DOMAIN existing :
     /\ existing[j].state = "open"
     /\ normalizeIssueTitle(existing[j].title) = normalizeIssueTitle(existing[i].title)}

\* the issue of a group that is kept: the highest number (802-805)
keepIssue(existing, group) ==
  CHOOSE k \in group : \A j \in group : existing[j].number <= existing[k].number

\* the members of a group below number bound, highest number first
RECURSIVE descending(_, _, _)
descending(existing, group, bound) ==
  LET below == {j \in group : existing[j].number < bound}
  IN IF below = {} THEN << >>
     ELSE LET top == CHOOSE k \in below : \A j \in below : existing[j].number <= existing[k].number
          IN <<top>> \o descending(existing, group, existing[top].number)

\* closes the listed duplicates in order
RECURSIVE closeEach(_, _, _, _)
closeEach(st, existing, dups, keep) ==
  IF dups = << >> THEN st
  ELSE closeEach([st EXCEPT
                    !.tracker = closeIssue(@, existing[Head(dups)].number),
                    !.stats.closed = @ + 1,
                    !.ops = Append(@, [op |-> "close", number |-> existing[Head(dups)].number,
                                       why |-> "duplicate", of |-> keep])],
                 existing, Tail(dups), keep)

\* closeDuplicateIssues (776-827): the groups are visited in the order of their
\* first member; groups 1..n of that order handled
RECURSIVE closeDuplicatesUpTo(_, _, _)
closeDuplicatesUpTo(st, existing, n) ==
  IF n = 0 THEN st
  ELSE LET prev  == closeDuplicatesUpTo(st, existing, n - 1)
           group == duplicateGroup(existing, n)
           keep  == keepIssue(existing, group)
       IN IF existing[n].state = "open" /\ n = FirstOf(group) /\ Cardinality(group) > 1
          THEN closeEach(prev, existing,
                         descending(existing, group, existing[keep].number),
                         existing[keep].number)
          ELSE prev

closeDuplicateIssues(st, existing) == closeDuplicatesUpTo(st, existing, Len(existing))

(***************************************************************************)
(* State                                                                   *)
(***************************************************************************)
VARIABLES
  tracker,            \* the issues of the tracker, tracker[n].number = n
  runNumber,          \* context.runNumber of the current (or last) run
  conf,               \* issuesConfig
  family,             \* which findings of the catalogue the repository yields
  pc,                 \* position in processFindings
  findings,           \* the findings argument of the run
  uniqueFindings,     \* the deduplicated findings
  existingIssues,     \* the issues fetched at the start of the run
  actionableFindings, \* the deduplicated findings that meet the thresholds
  idx,                \* next position in actionableFindings
  fingerprintMap,
  seenFingerprints,
  stats,
  ops,                \* the tracker operations issued by the run, in order
  prev,               \* the previous completed run: its findings and outcome
  files               \* the findings file and the context file given to main

vars == <<tracker, runNumber, conf, family, pc, findings, uniqueFindings, existingIssues,
          actionableFindings, idx, fingerprintMap, seenFingerprints, stats, ops, prev, files>>

ZeroStats == [created |-> 0, updated |-> 0, closed |-> 0, skippedBelowThreshold |-> 0,
              skippedDuplicate |-> 0, skippedMaxReached |-> 0]

NoMap == [fp \in {} |-> 0]

\* the thresholds a repository may configure: <<severity, confidence>>
Thresholds == { <<"info", "low">>, <<"medium", "medium">> }

\* defaults of issuesConfig (454-462) with the overrides a repository may set
Configs ==
  {[enabled |-> TRUE, label |-> "vibeCop", max_new_per_run |-> cap,
    severity_threshold |-> t[1], confidence_threshold |-> t[2], close_resolved |-> close] :
     cap \in 0..MaxCap, t \in Thresholds, close \in BOOLEAN}

\* lists without repetition of at most n findings out of the set S of catalogue entries
ListsOver(S, n) ==
  {l \in UNION {[1..m -> S] : m \in 0..n} : \A i, j \in DOMAIN l : i # j => l[i] # l[j]}

FindingLists == [f \in DOMAIN Families |-> ListsOver(Families[f], MaxFindings)]

\* issuesConfig (454-462): the defaults, overridden by context.config.issues
DefaultIssuesConfig ==
  [enabled |-> TRUE, label |-> "vibeCop", max_new_per_run |-> 25,
   severity_threshold |-> "info", confidence_threshold |-> "low", close_resolved |-> FALSE]

issuesConfig(overrides) ==
  [k \in DOMAIN DefaultIssuesConfig |->
     IF k \in DOMAIN overrides THEN overrides[k] ELSE DefaultIssuesConfig[k]]

\* a file given to main: absent, not JSON, or well-formed
FileStates == {"missing", "malformed", "ok"}
OkFiles == [findings |-> "ok", context |-> "ok"]

Init ==
  /\ tracker = << >>
  /\ runNumber = 0
  /\ conf \in Configs
  /\ family \in DOMAIN Families
  /\ pc = "idle"
  /\ findings = << >>
  /\ uniqueFindings = << >>
  /\ existingIssues = << >>
  /\ actionableFindings = << >>
  /\ idx = 1
  /\ fingerprintMap = NoMap
  /\ seenFingerprints = {}
  /\ stats = ZeroStats
  /\ ops = << >>
  /\ prev = [ran |-> FALSE, findings |-> << >>, stats |-> ZeroStats, startEmpty |-> FALSE]
  /\ files = OkFiles

\* the part of the state that the steps of a run transform
RunState == [tracker |-> tracker, fingerprintMap |-> fingerprintMap,
             seenFingerprints |-> seenFingerprints, stats |-> stats, ops |-> ops]

Apply(st) ==
  /\ tracker' = st.tracker
  /\ fingerprintMap' = st.fingerprintMap
  /\ seenFingerprints' = st.seenFingerprints
  /\ stats' = st.stats
  /\ ops' = st.ops

\* lets every finding pass
keepAllFindings(unique, c) == unique

\* the threshold filter (489-497)
filterActionable(unique, c) ==
  SelectSeq(unique, LAMBDA f : meetsThresholds(f.severity, f.confidence,
                                               c.severity_threshold, c.confidence_threshold))

\* ensureLabels (474): the labels are created in the tracker
EnsureLabelsOp == [op |-> "labels", number |-> 0]

\* main never looks at its files
loadInputsUnchecked(findingsFile, contextFile) == "loaded"

\* main up to processFindings (886-906): existsSync and JSON.parse of the
\* findings file, then of the context file
loadInputs(findingsFile, contextFile) ==
  IF findingsFile = "missing" THEN "exit"
  ELSE IF findingsFile = "malformed" THEN "throw"
  ELSE IF contextFile = "missing" THEN "exit"
  ELSE IF contextFile = "malformed" THEN "throw"
  ELSE "loaded"

\* the positions at which no process is running
Ended == {"idle", "rejected", "failedInLoop", "failedInResolved", "failedInDuplicates"}

\* processFindings up to the loop (438-543): labels, fetch, deduplicate, filter
startProcessing(input) ==
  /\ LET fs       == [i \in DOMAIN input |-> Catalogue[input[i]]]
         existing == searchIssuesByLabel(tracker, conf.label)
         unique   == deduplicateFindings(fs)
         act      == filterActionable(unique, conf)
     IN /\ findings' = fs
        /\ uniqueFindings' = unique
        /\ existingIssues' = existing
        /\ fingerprintMap' = buildFingerprintMap(existing)
        /\ actionableFindings' = act
        /\ stats' = [ZeroStats EXCEPT !.skippedBelowThreshold = Len(unique) - Len(act)]
  /\ runNumber' = runNumber + 1
  /\ idx' = 1
  /\ seenFingerprints' = {}
  /\ ops' = <<EnsureLabelsOp>>
  /\ pc' = "loop"
  /\ UNCHANGED <<tracker, conf, family, prev>>

\* main (886-909, 933-938): a missing file ends the process with exit code
\* 1, a malformed one throws into the catch of main, which exits with 1
main(findingsFile, contextFile, input) ==
  /\ pc \in Ended
  /\ runNumber < MaxRuns
  /\ conf.enabled
  /\ files' = [findings |-> findingsFile, context |-> contextFile]
  /\ IF loadInputs(findingsFile, contextFile) = "loaded"
     THEN startProcessing(input)
     ELSE /\ pc' = "rejected"
          /\ ops' = << >>
          /\ UNCHANGED <<tracker, runNumber, conf, family, findings, uniqueFindings,
                         existingIssues, actionableFindings, idx, fingerprintMap,
                         seenFingerprints, stats, prev>>

\* a run on well-formed files
StartRun(input) == main("ok", "ok", input)

\* the readings the clock can give: none earlier than a timestamp it has
\* given to a body of the tracker
Clock == {t \in 1..MaxClock : \A i \in DOMAIN tracker : tracker[i].body.generated <= t}

\* one iteration of the loop over actionableFindings (546-625)
ProcessFinding ==
  /\ pc = "loop"
  /\ idx <= Len(actionableFindings)
  /\ \E now \in Clock :
       Apply(processFinding(RunState, existingIssues, actionableFindings[idx], conf,
                            runNumber, now))
  /\ idx' = idx + 1
  /\ UNCHANGED <<runNumber, conf, family, pc, findings, uniqueFindings, existingIssues,
                 actionableFindings, prev, files>>

\* the loop is over and close_resolved is off: processFindings returns (628, 652)
FinishWithoutClosing ==
  /\ pc = "loop"
  /\ idx > Len(actionableFindings)
  /\ ~conf.close_resolved
  /\ pc' = "done"
  /\ UNCHANGED <<tracker, runNumber, conf, family, findings, uniqueFindings, existingIssues,
                 actionableFindings, idx, fingerprintMap, seenFingerprints, stats, ops, prev, files>>

\* closeResolvedIssues (629-636)
CloseResolved ==
  /\ pc = "loop"
  /\ idx > Len(actionableFindings)
  /\ conf.close_resolved
  /\ Apply(closeResolvedIssues(RunState, existingIssues, runNumber))
  /\ pc' = "superseded"
  /\ UNCHANGED <<runNumber, conf, family, findings, uniqueFindings, existingIssues,
                 actionableFindings, idx, prev, files>>

\* closeSupersededIssues (639-646)
CloseSuperseded ==
  /\ pc = "superseded"
  /\ Apply(closeSupersededIssues(RunState, existingIssues, actionableFindings))
  /\ pc' = "duplicates"
  /\ UNCHANGED <<runNumber, conf, family, findings, uniqueFindings, existingIssues,
                 actionableFindings, idx, prev, files>>

\* closeDuplicateIssues, then processFindings returns (649-652)
CloseDuplicates ==
  /\ pc = "duplicates"
  /\ Apply(closeDuplicateIssues(RunState, existingIssues))
  /\ pc' = "done"
  /\ UNCHANGED <<runNumber, conf, family, findings, uniqueFindings, existingIssues,
                 actionableFindings, idx, prev, files>>

\* the process ends; the next scheduled run may start
EndRun ==
  /\ pc = "done"
  /\ pc' = "idle"
  /\ prev' = [ran |-> TRUE, findings |-> findings, stats |-> stats,
              startEmpty |-> existingIssues = << >>]
  /\ UNCHANGED <<tracker, runNumber, conf, family, findings, uniqueFindings, existingIssues,
                 actionableFindings, idx, fingerprintMap, seenFingerprints, stats, ops, files>>

Next ==
  \/ \E input \in FindingLists[family] : StartRun(input)
  \/ ProcessFinding
  \/ FinishWithoutClosing
  \/ CloseResolved
  \/ CloseSuperseded
  \/ CloseDuplicates
  \/ EndRun

Spec == Init /\ [][Next]_vars

(***************************************************************************)
(* Runs with rejected input files and with failing tracker operations:     *)
(* withRateLimit surfaces the error of an operation that fails for good,   *)
(* nothing in processFindings catches it (580-650), and the catch of main  *)
(* ends the process with exit code 1 (933-938)                             *)
(***************************************************************************)
\* the update or create of the current finding fails (589-596, 613-620)
FailInLoop ==
  /\ pc = "loop"
  /\ idx <= Len(actionableFindings)
  /\ \E now \in Clock :
       processFinding(RunState, existingIssues, actionableFindings[idx], conf,
                      runNumber, now).ops # ops
  /\ pc' = "failedInLoop"
  /\ UNCHANGED <<tracker, runNumber, conf, family, findings, uniqueFindings, existingIssues,
                 actionableFindings, idx, fingerprintMap, seenFingerprints, stats, ops,
                 prev, files>>

\* the close or comment for the n-th fetched issue fails in
\* closeResolvedIssues, after the issues before it were handled (858-876)
FailInCloseResolved ==
  /\ pc = "loop"
  /\ idx > Len(actionableFindings)
  /\ conf.close_resolved
  /\ \E n \in DOMAIN existingIssues :
       /\ closeResolvedUpTo(RunState, existingIssues, runNumber, n).ops
            # closeResolvedUpTo(RunState, existingIssues, runNumber, n - 1).ops
       /\ Apply(closeResolvedUpTo(RunState, existingIssues, runNumber, n - 1))
  /\ pc' = "failedInResolved"
  /\ UNCHANGED <<runNumber, conf, family, findings, uniqueFindings, existingIssues,
                 actionableFindings, idx, prev, files>>

\* the first close of the n-th group fails in closeDuplicateIssues, after the
\* groups before it were handled (815-822)
FailInCloseDuplicates ==
  /\ pc = "duplicates"
  /\ \E n \in DOMAIN existingIssues :
       /\ closeDuplicatesUpTo(RunState, existingIssues, n).ops
            # closeDuplicatesUpTo(RunState, existingIssues, n - 1).ops
       /\ Apply(closeDuplicatesUpTo(RunState, existingIssues, n - 1))
  /\ pc' = "failedInDuplicates"
  /\ UNCHANGED <<runNumber, conf, family, findings, uniqueFindings, existingIssues,
                 actionableFindings, idx, prev, files>>

\* the eslint findings of the catalogue under a configuration that lets
\* everything pass
FaultInit ==
  /\ Init
  /\ family = 1
  /\ conf.max_new_per_run = MaxCap
  /\ conf.severity_threshold = "info"

FaultNext ==
  \/ \E findingsFile, contextFile \in FileStates : \E input \in FindingLists[family] :
       runNumber < MaxRuns - 1 /\ main(findingsFile, contextFile, input)
  \/ ProcessFinding
  \/ FinishWithoutClosing
  \/ CloseResolved
  \/ CloseSuperseded
  \/ CloseDuplicates
  \/ EndRun
  \/ FailInLoop
  \/ FailInCloseResolved
  \/ FailInCloseDuplicates

FaultSpec == FaultInit /\ [][FaultNext]_vars

(***************************************************************************)
(* Runs of the trunk findings under the default configuration, with        *)
(* close_resolved off or on: max_new_per_run is 25 (454-462)               *)
(***************************************************************************)
DefaultInit ==
  /\ tracker = << >>
  /\ runNumber = 0
  /\ conf \in {issuesConfig(<< >>), issuesConfig([close_resolved |-> TRUE])}
  /\ family = 2
  /\ pc = "idle"
  /\ findings = << >>
  /\ uniqueFindings = << >>
  /\ existingIssues = << >>
  /\ actionableFindings = << >>
  /\ idx = 1
  /\ fingerprintMap = NoMap
  /\ seenFingerprints = {}
  /\ stats = ZeroStats
  /\ ops = << >>
  /\ prev = [ran |-> FALSE, findings |-> << >>, stats |-> ZeroStats, startEmpty |-> FALSE]
  /\ files = OkFiles

DefaultSpec == DefaultInit /\ [][Next]_vars

\* the positions of a run in processFindings
Positions == {"idle", "loop", "superseded", "duplicates", "done"}

\* some step of Next can be taken: a run is under way, or another run is due
Scheduled == pc # "idle" \/ (runNumber < MaxRuns /\ conf.enabled)

\* a step of Next seen through the control state: every action of Next moves
\* pc or idx, and under Spec nothing else does
Advance == Scheduled /\ pc' \in Positions /\ idx' \in 1..(MaxFindings + 1)

\* every action of Next moves the control state, and Next can act exactly
\* when Scheduled
AdvanceIsNext ==
  [][/\ <<pc, idx>>' # <<pc, idx>>
     /\ Scheduled
     /\ pc' \in Positions /\ idx' \in 1..(MaxFindings + 1)]_vars

\* the workflow is scheduled again and again and every awaited step of a run
\* returns (886-939): a step that can be taken is eventually taken
FairSpec == Spec /\ WF_<<pc, idx>>(Advance)

(***************************************************************************)
(* deduplicateFindings on its own, over finding lists with repetitions     *)
(***************************************************************************)
\* the catalogue and the drifted eslint finding reported at two lines
DedupCatalogue ==
  Catalogue \o
  << MkFinding(T_eslint, T_noUnusedVars, T_unusedTitle, T_msgX, "medium", "high", "S", "code",
               "none", <<Loc(T_srcA, 48), Loc(T_srcA, 42)>>) >>

\* every list of at most MaxInput findings of the catalogue
DedupInputs ==
  {[i \in DOMAIN l |-> DedupCatalogue[l[i]]] :
     l \in UNION {[1..m -> DOMAIN DedupCatalogue] : m \in 0..MaxInput}}

DedupInit ==
  /\ findings \in DedupInputs
  /\ uniqueFindings = << >>
  /\ pc = "findings"
  /\ tracker = << >>
  /\ runNumber = 0
  /\ conf \in {c \in Configs : c.max_new_per_run = 0 /\ ~c.close_resolved
                               /\ c.severity_threshold = "info"}
  /\ family = 1
  /\ existingIssues = << >>
  /\ actionableFindings = << >>
  /\ idx = 1
  /\ fingerprintMap = NoMap
  /\ seenFingerprints = {}
  /\ stats = ZeroStats
  /\ ops = << >>
  /\ prev = [ran |-> FALSE, findings |-> << >>, stats |-> ZeroStats, startEmpty |-> FALSE]
  /\ files = OkFiles

\* const uniqueFindings = deduplicateFindings(findings) (485)
Deduplicate ==
  /\ pc = "findings"
  /\ uniqueFindings' = deduplicateFindings(findings)
  /\ pc' = "unique"
  /\ UNCHANGED <<tracker, runNumber, conf, family, findings, existingIssues,
                 actionableFindings, idx, fingerprintMap, seenFingerprints, stats, ops, prev, files>>

\* deduplicateFindings applied to its own result
DeduplicateAgain ==
  /\ pc = "unique"
  /\ uniqueFindings' = deduplicateFindings(uniqueFindings)
  /\ pc' = "again"
  /\ UNCHANGED <<tracker, runNumber, conf, family, findings, existingIssues,
                 actionableFindings, idx, fingerprintMap, seenFingerprints, stats, ops, prev, files>>

DedupNext == Deduplicate \/ DeduplicateAgain

DedupSpec == DedupInit /\ [][DedupNext]_vars

(***************************************************************************)
(* Title rendering on its own: findings whose titles put the last space    *)
(* around the two limits of truncateAtWordBoundary, with zero to four      *)
(* files (sarif-to-issues.ts 353-391)                                      *)
(***************************************************************************)
Rep(c, n) == [i \in 1..n |-> c]

\* files f1.ts, f2.ts, ... under src/
TitleFile(k) == <<"s","r","c","/","f">> \o NatToText(k) \o <<".","t","s">>

\* first-word lengths that put the space after the word at the 0-based
\* index limit - Pad .. limit + Pad of the whole title, for the limits
\* truncateAt - 20 and truncateAt
FirstWordLengths ==
  {limit + d - (Len(Prefix) + 1) :
     limit \in {TitleMaxLen - 3 - 20, TitleMaxLen - 3}, d \in (0 - MaxPad)..MaxPad}

SecondWordLengths == 0..(MaxPad + 2) \cup {12, 13, 30}

\* a finding titled "<a times x> <b times y>" found in n files
TitleFinding(a, b, n) ==
  [tool |-> T_eslint, ruleId |-> T_noUnusedVars,
   title |-> Rep("x", a) \o <<" ">> \o Rep("y", b), message |-> T_msgX,
   severity |-> "medium", confidence |-> "high", effort |-> "S", layer |-> "code",
   autofix |-> "none", locations |-> [k \in 1..n |-> Loc(TitleFile(k), 42)],
   fingerprint |-> computeFingerprint(T_eslint, T_noUnusedVars, T_srcA, 42, T_msgX)]

TitleInputs ==
  {TitleFinding(a, b, n) : a \in FirstWordLengths, b \in SecondWordLengths, n \in 0..4}

\* no configuration of the issues, and a configuration that sets the label
TitleConfigs == {issuesConfig(<< >>), issuesConfig([label |-> "custom"])}

TitleInit ==
  /\ findings \in {<<f>> : f \in TitleInputs}
  /\ uniqueFindings = << >>
  /\ pc = "findings"
  /\ tracker = << >>
  /\ runNumber = 1
  /\ conf \in TitleConfigs
  /\ family = 1
  /\ existingIssues = << >>
  /\ actionableFindings = << >>
  /\ idx = 1
  /\ fingerprintMap = NoMap
  /\ seenFingerprints = {}
  /\ stats = ZeroStats
  /\ ops = << >>
  /\ prev = [ran |-> FALSE, findings |-> << >>, stats |-> ZeroStats, startEmpty |-> FALSE]
  /\ files = OkFiles

\* the issue of the finding is created under its rendered title (606-612)
RenderTitle ==
  /\ pc = "findings"
  /\ tracker' = createIssue(tracker, generateIssueTitle(findings[1]),
                            generateIssueBody(findings[1], runNumber, 1),
                            getLabelsForFinding(findings[1], conf.label))
  /\ pc' = "titled"
  /\ UNCHANGED <<runNumber, conf, family, findings, uniqueFindings, existingIssues,
                 actionableFindings, idx, fingerprintMap, seenFingerprints, stats, ops, prev, files>>

TitleNext == RenderTitle

TitleSpec == TitleInit /\ [][TitleNext]_vars

(***************************************************************************)
(* Sorting (scoring.ts 836-875)                                            *)
(***************************************************************************)
\* the characters of the modelled paths in collation order: punctuation
\* before digits before letters
CollationChars ==
  <<"_", "-", ".", "/", "0","1","2","3","4","5","6","7","8","9">> \o LowerChars

CollationRank(c) == CHOOSE i \in DOMAIN CollationChars : CollationChars[i] = c

\* a.localeCompare(b) on texts of lower-case letters, digits and punctuation:
\* negative, zero or positive
RECURSIVE localeCompare(_, _)
localeCompare(a, b) ==
  IF a = << >> /\ b = << >> THEN 0
  ELSE IF a = << >> THEN 0 - 1
  ELSE IF b = << >> THEN 1
  ELSE IF a[1] # b[1]
    THEN (IF CollationRank(a[1]) < CollationRank(b[1]) THEN 0 - 1 ELSE 1)
  ELSE localeCompare(Tail(a), Tail(b))

\* a.locations[0]?.path ?? "" and a.locations[0]?.startLine ?? 0
canonicalPath(a) == IF Len(a.locations) = 0 THEN NoText ELSE a.locations[1].path
canonicalLine(a) == IF Len(a.locations) = 0 THEN 0 ELSE a.locations[1].startLine

\* stops at the path: the line is not compared
compareFindingsIgnoringLine(a, b) ==
  IF SEVERITY_ORDER[b.severity] - SEVERITY_ORDER[a.severity] # 0
    THEN SEVERITY_ORDER[b.severity] - SEVERITY_ORDER[a.severity]
  ELSE IF CONFIDENCE_ORDER[b.confidence] - CONFIDENCE_ORDER[a.confidence] # 0
    THEN CONFIDENCE_ORDER[b.confidence] - CONFIDENCE_ORDER[a.confidence]
  ELSE localeCompare(canonicalPath(a), canonicalPath(b))

compareFindingsForSort(a, b) ==
  IF SEVERITY_ORDER[b.severity] - SEVERITY_ORDER[a.severity] # 0
    THEN SEVERITY_ORDER[b.severity] - SEVERITY_ORDER[a.severity]
  ELSE IF CONFIDENCE_ORDER[b.confidence] - CONFIDENCE_ORDER[a.confidence] # 0
    THEN CONFIDENCE_ORDER[b.confidence] - CONFIDENCE_ORDER[a.confidence]
  ELSE IF localeCompare(canonicalPath(a), canonicalPath(b)) # 0
    THEN localeCompare(canonicalPath(a), canonicalPath(b))
  ELSE canonicalLine(a) - canonicalLine(b)

\* fs.sort(compareFindingsForSort): Array.prototype.sort is stable, so an
\* element goes behind every earlier element that does not compare greater
RECURSIVE sortFindings(_)
sortFindings(fs) ==
  IF fs = << >> THEN << >>
  ELSE LET front == sortFindings(Sub(fs, 1, Len(fs) - 1))
           last  == fs[Len(fs)]
           n     == Cardinality({i \in DOMAIN front :
                                   compareFindingsForSort(front[i], last) <= 0})
       IN Sub(front, 1, n) \o <<last>> \o Sub(front, n + 1, Len(front))

\* findings of several severities, confidences, paths and lines; the first
\* two differ in their rule only, the last has no location
SortCatalogue == <<
  MkFinding(T_eslint, T_noUnusedVars, T_unusedTitle, T_msgX, "medium", "high", "S", "code",
            "none", <<Loc(T_srcA, 42)>>),
  MkFinding(T_eslint, T_braces, T_unusedTitle, T_msgBraces, "medium", "high", "S", "code",
            "none", <<Loc(T_srcA, 42)>>),
  MkFinding(T_eslint, T_noUnusedVars, T_unusedTitle, T_msgX, "medium", "high", "S", "code",
            "none", <<Loc(T_srcA, 61)>>),
  MkFinding(T_trunk, T_truthy, T_yamlTruthyTitle, T_msgTruthy, "low", "low", "S", "code",
            "safe", <<Loc(T_aYaml, 3)>>),
  MkFinding(T_trunk, T_braces, T_yamlBracesTitle, T_msgBraces, "medium", "medium", "S", "code",
            "none", <<Loc(T_bYaml, 7)>>),
  MkFinding(T_trunk, T_truthyBraces, T_yamlMergedTitle, T_msgMerged, "high", "high", "M",
            "code", "none", <<Loc(T_aYaml, 3), Loc(T_bYaml, 7)>>),
  [tool |-> T_eslint, ruleId |-> T_noUnusedVars, title |-> T_unusedTitle,
   message |-> T_msgX, severity |-> "medium", confidence |-> "high", effort |-> "S",
   layer |-> "code", autofix |-> "none", locations |-> << >>,
   fingerprint |-> NoFingerprint] >>

\* every list of at most MaxInput findings of the catalogue
SortInputs ==
  {[i \in DOMAIN l |-> SortCatalogue[l[i]]] :
     l \in UNION {[1..m -> DOMAIN SortCatalogue] : m \in 0..MaxInput}}

SortInit ==
  /\ findings \in SortInputs
  /\ uniqueFindings = << >>
  /\ pc = "findings"
  /\ tracker = << >>
  /\ runNumber = 0
  /\ conf \in {c \in Configs : c.max_new_per_run = 0 /\ ~c.close_resolved
                               /\ c.severity_threshold = "info"}
  /\ family = 1
  /\ existingIssues = << >>
  /\ actionableFindings = << >>
  /\ idx = 1
  /\ fingerprintMap = NoMap
  /\ seenFingerprints = {}
  /\ stats = ZeroStats
  /\ ops = << >>
  /\ prev = [ran |-> FALSE, findings |-> << >>, stats |-> ZeroStats, startEmpty |-> FALSE]
  /\ files = OkFiles

\* the findings sorted by compareFindingsForSort
SortFindings ==
  /\ pc = "findings"
  /\ actionableFindings' = sortFindings(findings)
  /\ pc' = "sorted"
  /\ UNCHANGED <<tracker, runNumber, conf, family, findings, uniqueFindings, existingIssues,
                 idx, fingerprintMap, seenFingerprints, stats, ops, prev, files>>

SortNext == SortFindings

SortSpec == SortInit /\ [][SortNext]_vars

(***************************************************************************)
(* The threshold filter on its own (sarif-to-issues.ts 485-501): findings  *)
(* of every severity and confidence under every pair of thresholds         *)
(***************************************************************************)
Severities == {"low", "medium", "high", "critical"}
Confidences == {"low", "medium", "high"}

\* one finding per severity and confidence, each in a line bucket of its own
FilterFinding(severity, confidence) ==
  MkFinding(T_eslint, T_noUnusedVars, T_unusedTitle, T_msgX, severity, confidence, "S", "code",
            "none",
            <<Loc(T_srcA, LINE_BUCKET_SIZE * (3 * SEVERITY_ORDER[severity]
                                               + CONFIDENCE_ORDER[confidence]))>>)

FilterCatalogue == {FilterFinding(s, c) : s \in Severities, c \in Confidences}

\* lists of up to MaxFindings findings; a finding may be reported twice
FilterInputs == UNION {[1..m -> FilterCatalogue] : m \in 0..MaxFindings}

FilterConfigs ==
  {issuesConfig([severity_threshold |-> s, confidence_threshold |-> c]) :
     s \in Severities \cup {"info"}, c \in Confidences}

FilterInit ==
  /\ findings \in FilterInputs
  /\ uniqueFindings = << >>
  /\ pc = "findings"
  /\ tracker = << >>
  /\ runNumber = 1
  /\ conf \in FilterConfigs
  /\ family = 1
  /\ existingIssues = << >>
  /\ actionableFindings = << >>
  /\ idx = 1
  /\ fingerprintMap = NoMap
  /\ seenFingerprints = {}
  /\ stats = ZeroStats
  /\ ops = << >>
  /\ prev = [ran |-> FALSE, findings |-> << >>, stats |-> ZeroStats, startEmpty |-> FALSE]
  /\ files = OkFiles

\* deduplicate, filter by the thresholds, count the rejected (485-501)
FilterFindings ==
  /\ pc = "findings"
  /\ LET unique == deduplicateFindings(findings)
         act    == filterActionable(unique, conf)
     IN /\ uniqueFindings' = unique
        /\ actionableFindings' = act
        /\ stats' = [stats EXCEPT !.skippedBelowThreshold = Len(unique) - Len(act)]
  /\ pc' = "filtered"
  /\ UNCHANGED <<tracker, runNumber, conf, family, findings, existingIssues, idx,
                 fingerprintMap, seenFingerprints, ops, prev, files>>

FilterNext == FilterFindings

FilterSpec == FilterInit /\ [][FilterNext]_vars

(***************************************************************************)
(* Semgrep severity and confidence (scoring.ts 289-318)                    *)
(***************************************************************************)
T_semgrep == <<"s","e","m","g","r","e","p">>
T_critical == <<"c","r","i","t","i","c","a","l">>
T_high == <<"h","i","g","h">>
T_medium == <<"m","e","d","i","u","m">>
T_low == <<"l","o","w">>
T_error == <<"e","r","r","o","r">>
T_warning == <<"w","a","r","n","i","n","g">>
T_info == <<"i","n","f","o">>
T_unknown == <<"u","n","k","n","o","w","n">>

\* the text with its first letter in upper case, and all in upper case
Capitalized(s) ==
  [i \in DOMAIN s |->
     IF i = 1 /\ \E k \in DOMAIN LowerChars : LowerChars[k] = s[i]
     THEN UpperChars[CHOOSE k \in DOMAIN LowerChars : LowerChars[k] = s[i]] ELSE s[i]]

toUpperCase(s) ==
  [i \in DOMAIN s |->
     IF \E k \in DOMAIN LowerChars : LowerChars[k] = s[i]
     THEN UpperChars[CHOOSE k \in DOMAIN LowerChars : LowerChars[k] = s[i]] ELSE s[i]]

mapSemgrepSeverity(semgrepSeverity) ==
  LET normalized == toLowerCase(semgrepSeverity)
  IN IF normalized = T_error \/ normalized = T_high THEN "high"
     ELSE IF normalized = T_warning \/ normalized = T_medium THEN "medium"
     ELSE IF normalized = T_info \/ normalized = T_low THEN "low"
     ELSE "medium"

\* an absent confidence (undefined) is NoText, which !semgrepConfidence also
\* takes the empty string for
mapSemgrepConfidence(semgrepConfidence) ==
  IF semgrepConfidence = NoText THEN "medium"
  ELSE LET normalized == toLowerCase(semgrepConfidence)
       IN IF normalized = T_high THEN "high"
          ELSE IF normalized = T_medium THEN "medium"
          ELSE "low"

\* what semgrep may report as severity and as confidence, in any case of letters
SemgrepWords == {T_critical, T_high, T_medium, T_low, T_error, T_warning, T_info, T_unknown}
SemgrepSeverities == UNION {{w, Capitalized(w), toUpperCase(w)} : w \in SemgrepWords}
SemgrepConfidences == SemgrepSeverities \cup {NoText}

\* a result of semgrep before normalization
SemgrepResults == {[severity |-> s, confidence |-> c] : s \in SemgrepSeverities, c \in SemgrepConfidences}

SemgrepInit ==
  /\ findings \in {<<r>> : r \in SemgrepResults}
  /\ uniqueFindings = << >>
  /\ pc = "raw"
  /\ tracker = << >>
  /\ runNumber = 1
  /\ conf = issuesConfig(<< >>)
  /\ family = 1
  /\ existingIssues = << >>
  /\ actionableFindings = << >>
  /\ idx = 1
  /\ fingerprintMap = NoMap
  /\ seenFingerprints = {}
  /\ stats = ZeroStats
  /\ ops = << >>
  /\ prev = [ran |-> FALSE, findings |-> << >>, stats |-> ZeroStats, startEmpty |-> FALSE]
  /\ files = OkFiles

\* the result of semgrep becomes a finding with normalized severity and
\* confidence; findings holds the result, uniqueFindings the finding
MapSemgrep ==
  /\ pc = "raw"
  /\ uniqueFindings' =
       <<MkFinding(T_semgrep, T_noUnusedVars, T_unusedTitle, T_msgX,
                   mapSemgrepSeverity(findings[1].severity),
                   mapSemgrepConfidence(findings[1].confidence),
                   "S", "code", "none", <<Loc(T_srcA, 42)>>)>>
  /\ pc' = "mapped"
  /\ UNCHANGED <<tracker, runNumber, conf, family, findings, existingIssues, actionableFindings,
                 idx, fingerprintMap, seenFingerprints, stats, ops, prev, files>>

SemgrepNext == MapSemgrep

SemgrepSpec == SemgrepInit /\ [][SemgrepNext]_vars

(***************************************************************************)
(* Fingerprints of two findings that differ in line, rule or message       *)
(* (section 4.2 of the specification; README, Fingerprinting)              *)
(***************************************************************************)
T_noUndef == <<"n","o","-","u","n","d","e","f">>
T_msgZ == <<"'","x","'"," ","i","s"," ","n","o","t"," ","d","e","f","i","n","e","d">>

\* the lines the first finding is reported at, and the shifts of the second
BaseLines == {19, 20, 42, 59}
Shifts == (0 - (LINE_BUCKET_SIZE + MaxPad))..(LINE_BUCKET_SIZE + MaxPad)

\* what a tool reports of a finding before the fingerprint is computed
RawFinding(ruleId, message, startLine) ==
  [ruleId |-> ruleId, message |-> message, startLine |-> startLine]

FingerprintInputs ==
  {p \in {<<RawFinding(T_noUnusedVars, T_msgX, l), RawFinding(r, m, l + d)>> :
            l \in BaseLines, d \in Shifts,
            r \in {T_noUnusedVars, T_noUndef}, m \in {T_msgX, T_msgY, T_msgZ}} :
     p[2].startLine >= 1}

FingerprintInit ==
  /\ findings \in FingerprintInputs
  /\ uniqueFindings = << >>
  /\ pc = "raw"
  /\ tracker = << >>
  /\ runNumber = 1
  /\ conf = issuesConfig(<< >>)
  /\ family = 1
  /\ existingIssues = << >>
  /\ actionableFindings = << >>
  /\ idx = 1
  /\ fingerprintMap = NoMap
  /\ seenFingerprints = {}
  /\ stats = ZeroStats
  /\ ops = << >>
  /\ prev = [ran |-> FALSE, findings |-> << >>, stats |-> ZeroStats, startEmpty |-> FALSE]
  /\ files = OkFiles

\* the fingerprints are computed and the findings deduplicated by them
AssignFingerprints ==
  /\ pc = "raw"
  /\ LET fs == [i \in DOMAIN findings |->
                  MkFinding(T_eslint, findings[i].ruleId, T_unusedTitle, findings[i].message,
                            "medium", "high", "S", "code", "none",
                            <<Loc(T_srcA, findings[i].startLine)>>)]
     IN /\ findings' = fs
        /\ uniqueFindings' = deduplicateFindings(fs)
  /\ pc' = "fingerprinted"
  /\ UNCHANGED <<tracker, runNumber, conf, family, existingIssues, actionableFindings,
                 idx, fingerprintMap, seenFingerprints, stats, ops, prev, files>>

FingerprintNext == AssignFingerprints

FingerprintSpec == FingerprintInit /\ [][FingerprintNext]_vars

(***************************************************************************)
(* Runs between which the repository raises its thresholds: issuesConfig   *)
(* is built from the context file of each run (454-462, 906)               *)
(***************************************************************************)
RaisedThresholds == <<"high", "low">>

ReconfigInit ==
  /\ Init
  /\ conf.max_new_per_run = MaxCap
  /\ conf.severity_threshold = "info"

\* the next run will read a context file with a higher severity threshold
RaiseThresholds ==
  /\ pc = "idle"
  /\ runNumber >= 1
  /\ conf.severity_threshold = "info"
  /\ conf' = [conf EXCEPT !.severity_threshold = RaisedThresholds[1],
                          !.confidence_threshold = RaisedThresholds[2]]
  /\ UNCHANGED <<tracker, runNumber, family, pc, findings, uniqueFindings, existingIssues,
                 actionableFindings, idx, fingerprintMap, seenFingerprints, stats, ops, prev,
                 files>>

ReconfigNext ==
  \/ \E input \in FindingLists[family] : StartRun(input)
  \/ ProcessFinding
  \/ FinishWithoutClosing
  \/ CloseResolved
  \/ CloseSuperseded
  \/ CloseDuplicates
  \/ EndRun
  \/ RaiseThresholds

ReconfigSpec == ReconfigInit /\ [][ReconfigNext]_vars

(***************************************************************************)
(* Runs between which somebody edits the body of an issue and removes the  *)
(* run marker or both markers: the metadata of such an issue comes back    *)
(* without lastSeenRun, or without fingerprint and lastSeenRun             *)
(***************************************************************************)
EditInit ==
  /\ Init
  /\ family = 1
  /\ conf.max_new_per_run = MaxCap
  /\ conf.severity_threshold = "info"

\* the body of open issue n loses its run marker, and its fingerprint marker
\* too when both is TRUE; one issue at a time is in that state
EditBody(n, both) ==
  /\ pc = "idle"
  /\ n \in DOMAIN tracker
  /\ tracker[n].state = "open"
  /\ \A i \in DOMAIN tracker : tracker[i].state = "open" => tracker[i].body.runMarker # NoRun
  /\ tracker' = [tracker EXCEPT
                   ![n].body.runMarker = NoRun,
                   ![n].body.fingerprintMarker = IF both THEN NoFingerprint ELSE @]
  /\ UNCHANGED <<runNumber, conf, family, pc, findings, uniqueFindings, existingIssues,
                 actionableFindings, idx, fingerprintMap, seenFingerprints, stats, ops, prev,
                 files>>

EditNext ==
  \/ \E input \in FindingLists[family] : StartRun(input)
  \/ ProcessFinding
  \/ FinishWithoutClosing
  \/ CloseResolved
  \/ CloseSuperseded
  \/ CloseDuplicates
  \/ EndRun
  \/ \E n \in DOMAIN tracker, both \in BOOLEAN : EditBody(n, both)

EditSpec == EditInit /\ [][EditNext]_vars

(***************************************************************************)
(* Properties                                                              *)
(***************************************************************************)
InRun == pc # "idle"
LoopDone == pc \in {"superseded", "duplicates", "done"} \/ (pc = "loop" /\ idx > Len(actionableFindings))
OpsOf(kind) == {k \in DOMAIN ops : ops[k].op = kind}

\* the processed findings that matched no existing issue
UnmatchedProcessed ==
  {i \in 1..(idx - 1) :
     lookupIssue(fingerprintMap, existingIssues, actionableFindings[i]).at = 0}

\* C1: at every point of a run created never exceeds max_new_per_run, every
\* created issue is one CREATE operation, and every unmatched finding reached
\* at the cap creates nothing and is counted in skippedMaxReached.
C1_MaxNewCap ==
  /\ stats.created <= conf.max_new_per_run
  /\ Cardinality(OpsOf("create")) = stats.created
  /\ Len(tracker) = Len(existingIssues) + stats.created
  /\ stats.created + stats.skippedMaxReached = Cardinality(UnmatchedProcessed)
  /\ stats.skippedMaxReached > 0 => stats.created = conf.max_new_per_run

C1_Witness ==
  /\ pc = "done"
  /\ conf.max_new_per_run > 0
  /\ stats.created = conf.max_new_per_run
  /\ stats.skippedMaxReached > 0

\* the run repeats the findings of the previous run
Rerun == prev.ran /\ prev.findings = findings

\* no two open issues of the list share a normalized title
NoSharedTitles(issues) ==
  \A i, j \in DOMAIN issues :
    (i < j /\ issues[i].state = "open" /\ issues[j].state = "open")
      => normalizeIssueTitle(issues[i].title) # normalizeIssueTitle(issues[j].title)

\* C2 as stated: the second of two runs over the same findings creates and
\* closes nothing.
C2_Original ==
  (pc = "done" /\ Rerun) => (stats.created = 0 /\ stats.closed = 0)

\* C2 amended: when the first run started from a tracker without issues, the
\* second run creates nothing if the first run skipped no finding at the cap,
\* and closes nothing if close_resolved is off or no two open issues share a
\* normalized title; a single finding created by the first run gives
\* created=0, updated=1, closed=0.
C2_Rerun ==
  (pc = "done" /\ Rerun /\ prev.startEmpty) =>
    /\ prev.stats.skippedMaxReached = 0 => stats.created = 0
    /\ (~conf.close_resolved \/ NoSharedTitles(existingIssues)) => stats.closed = 0
    /\ (Len(deduplicateFindings(findings)) = 1 /\ prev.stats.created = 1)
         => (stats.created = 0 /\ stats.updated = 1 /\ stats.closed = 0)

C2_Witness ==
  /\ pc = "done" /\ Rerun /\ prev.startEmpty
  /\ Len(deduplicateFindings(findings)) = 1
  /\ prev.stats.created = 1
  /\ stats.updated = 1
  /\ conf.close_resolved

\* the open existing issues whose fingerprint the run has not seen
Unseen(i) ==
  /\ existingIssues[i].state = "open"
  /\ existingIssues[i].metadata.fingerprint # NoFingerprint
  /\ existingIssues[i].metadata.fingerprint \notin seenFingerprints

Misses(i) == runNumber - existingIssues[i].metadata.lastSeenRun

ClosesOf(n, reason) ==
  {k \in DOMAIN ops : ops[k].op = "close" /\ ops[k].number = n /\ ops[k].why = reason}

CommentsOf(n) == {k \in DOMAIN ops : ops[k].op = "comment" /\ ops[k].number = n}

\* C3 as stated: an issue absent for FLAP_PROTECTION_RUNS - 1 runs is not closed
\* by the run; one absent for FLAP_PROTECTION_RUNS runs or more is closed as
\* resolved.
C3_Original ==
  (pc = "done" /\ conf.close_resolved) =>
    \A i \in DOMAIN existingIssues :
      Unseen(i) =>
        IF Misses(i) >= FLAP_PROTECTION_RUNS
        THEN tracker[existingIssues[i].number].state = "closed"
        ELSE tracker[existingIssues[i].number].state = "open"

\* C3 amended: the flap-protection pass does not close an open issue absent
\* for fewer than FLAP_PROTECTION_RUNS runs, it comments on it with the
\* remaining grace count (a later pass of the same run may still close it);
\* at FLAP_PROTECTION_RUNS misses or more the pass closes it once, as
\* resolved, and closed counts the close.
C3_FlapProtection ==
  (pc \in {"superseded", "duplicates", "done"} /\ conf.close_resolved) =>
    /\ \A i \in DOMAIN existingIssues :
         LET n == existingIssues[i].number
         IN Unseen(i) =>
              IF Misses(i) >= FLAP_PROTECTION_RUNS
              THEN /\ Cardinality(ClosesOf(n, "resolved")) = 1
                   /\ \A k \in ClosesOf(n, "resolved") : ops[k].misses = Misses(i)
                   /\ CommentsOf(n) = {}
                   /\ tracker[n].state = "closed"
              ELSE /\ ClosesOf(n, "resolved") = {}
                   /\ Cardinality(CommentsOf(n)) = 1
                   /\ \A k \in CommentsOf(n) :
                        ops[k].remaining = FLAP_PROTECTION_RUNS - Misses(i)
                   /\ pc = "superseded" => tracker[n].state = "open"
    /\ stats.closed = Cardinality(OpsOf("close"))

C3_Witness ==
  /\ pc = "done"
  /\ \E i \in DOMAIN existingIssues :
       /\ Unseen(i)
       /\ Misses(i) = FLAP_PROTECTION_RUNS
       /\ ClosesOf(existingIssues[i].number, "resolved") # {}
       /\ stats.closed = 1

\* C4: a closed issue is never touched: no operation of the run names an issue
\* that was closed when the run read the tracker, the issue stays as it was
\* read, and a finding with the fingerprint of a closed issue is neither
\* created nor updated.
C4_ClosedIsTerminal ==
  \A i \in DOMAIN existingIssues :
    LET e == existingIssues[i]
    IN (InRun /\ e.state = "closed") =>
         /\ \A k \in DOMAIN ops : ops[k].number # e.number
         /\ tracker[e.number].state = "closed"
         /\ tracker[e.number].title = e.title
         /\ parseMetadata(tracker[e.number].body) = e.metadata
         /\ \A k \in DOMAIN ops :
              ops[k].op \in {"create", "update"} => ops[k].fingerprint # e.metadata.fingerprint

C4_Witness ==
  /\ pc = "done"
  /\ \E i \in DOMAIN existingIssues, j \in DOMAIN actionableFindings :
       /\ existingIssues[i].state = "closed"
       /\ actionableFindings[j].fingerprint = existingIssues[i].metadata.fingerprint

\* C5 as stated: after a run with close_resolved no two open issues of the
\* tracker share a normalized title.
C5_NoOpenDuplicates ==
  (pc = "done" /\ conf.close_resolved) => NoSharedTitles(tracker)

\* C7: no two issues of the tracker carry the same fingerprint, and no CREATE
\* is issued for a fingerprint that an existing issue carries.
C7_UniqueFingerprints ==
  /\ \A i, j \in DOMAIN tracker :
       i < j => tracker[i].body.fingerprintMarker # tracker[j].body.fingerprintMarker
  /\ \A k \in OpsOf("create"), i \in DOMAIN existingIssues :
       existingIssues[i].metadata.fingerprint # ops[k].fingerprint

C7_Witness ==
  /\ pc = "done" /\ Rerun
  /\ stats.updated = 2
  /\ stats.created = 0
  /\ Len(tracker) >= 2

\* the loop over the first n actionable findings, from the state st
\* with the clock reading clock[i] at the i-th finding
RECURSIVE loopUpTo(_, _, _, _, _, _, _)
loopUpTo(st, existing, act, c, runNo, clock, n) ==
  IF n = 0 THEN st
  ELSE processFinding(loopUpTo(st, existing, act, c, runNo, clock, n - 1), existing, act[n], c,
                      runNo, clock[n])

\* created + updated of a run of processFindings over fs with the thresholds
\* sev and cnf, everything else as in the current run
CreatedPlusUpdated(fs, existing, issues, c, runNo, sev, cnf) ==
  LET c2  == [c EXCEPT !.severity_threshold = sev, !.confidence_threshold = cnf]
      act == filterActionable(deduplicateFindings(fs), c2)
      st0 == [tracker |-> issues, fingerprintMap |-> buildFingerprintMap(existing),
              seenFingerprints |-> {}, stats |-> ZeroStats, ops |-> << >>]
      end == loopUpTo(st0, existing, act, c2, runNo, [i \in DOMAIN act |-> 1], Len(act))
  IN end.stats.created + end.stats.updated

SeverityThresholds == DOMAIN SEVERITY_ORDER
ConfidenceThresholds == DOMAIN CONFIDENCE_ORDER

\* C8: for the findings, existing issues, cap and run number of any run,
\* raising severity_threshold or confidence_threshold never increases
\* created + updated; the run itself ends with the created + updated of its
\* own thresholds.
C8_ThresholdMonotone ==
  /\ (pc = "loop" /\ idx = 1) =>
       \A total \in {[s \in SeverityThresholds, c \in ConfidenceThresholds |->
                       CreatedPlusUpdated(findings, existingIssues, tracker, conf,
                                          runNumber, s, c)]} :
          \A s1, s2 \in SeverityThresholds, c1, c2 \in ConfidenceThresholds :
            (/\ SEVERITY_ORDER[s1] <= SEVERITY_ORDER[s2]
             /\ CONFIDENCE_ORDER[c1] <= CONFIDENCE_ORDER[c2])
              => total[s2, c2] <= total[s1, c1]
  /\ (pc = "loop" /\ idx > Len(actionableFindings)) =>
       stats.created + stats.updated =
         CreatedPlusUpdated(findings, existingIssues,
                            SubSeq(tracker, 1, Len(existingIssues)), conf, runNumber,
                            conf.severity_threshold, conf.confidence_threshold)

\* a run in which a higher threshold strictly lowers created + updated, one of
\* the findings being updated and one created
C8_Witness ==
  /\ pc = "loop" /\ idx = 1
  /\ CreatedPlusUpdated(findings, existingIssues, tracker, conf, runNumber, "info", "low") = 2
  /\ CreatedPlusUpdated(findings, existingIssues, tracker, conf, runNumber, "medium", "low") = 1
  /\ CreatedPlusUpdated(findings, existingIssues, tracker, conf, runNumber, "critical", "low") = 0
  /\ existingIssues # << >>

\* the fingerprints of the findings handed to the current run
FindingFingerprints == {findings[i].fingerprint : i \in DOMAIN findings}

\* an upper bound on the issue numbers: every run creates at most MaxCap issues
IssueNumbers == 1..(MaxRuns * MaxCap)

IsOpen(n) == n <= Len(tracker) /\ tracker[n].state = "open"
IsClosed(n) == n <= Len(tracker) /\ tracker[n].state = "closed"

\* the finding that issue n stands for is reported to the current run
DetectedAgain(n) ==
  /\ InRun
  /\ n <= Len(tracker)
  /\ parseMetadata(tracker[n].body).fingerprint \in FindingFingerprints

DriftedLines(line) ==
  {l \in (line - (LINE_BUCKET_SIZE - 1))..(line + (LINE_BUCKET_SIZE - 1)) :
     l >= 1 /\ l \div LINE_BUCKET_SIZE = line \div LINE_BUCKET_SIZE}

\* the fingerprints of finding f reported at each of the lines ls
FingerprintsAt(f, ls) ==
  {computeFingerprint(f.tool, f.ruleId, f.locations[1].path, l, f.message) : l \in ls}

\* C9: a finding reported at any line within 20 lines and in the same bucket
\* of 20 has the same fingerprint; an open issue written for the finding at
\* such a line is updated by the loop of the run and no issue is created for
\* it; the finding of line 42 reported at line 48 in the next run gives created = 0
\* and updated = 1.
C9_DriftKeepsIssue ==
  /\ (pc = "loop" /\ idx = 1) =>
       \A i \in DOMAIN findings :
         FingerprintsAt(findings[i], DriftedLines(findings[i].locations[1].startLine))
           = {findings[i].fingerprint}
  /\ (pc = "loop" /\ idx > Len(actionableFindings)) =>
       \A k \in DOMAIN actionableFindings :
         \A f \in {actionableFindings[k]} :
           \A drifted \in {FingerprintsAt(f, DriftedLines(f.locations[1].startLine))} :
             \A i \in DOMAIN existingIssues :
               (/\ existingIssues[i].state = "open"
                /\ existingIssues[i].metadata.fingerprint \in drifted)
               => /\ \E j \in OpsOf("update") :
                       /\ ops[j].number = existingIssues[i].number
                       /\ ops[j].fingerprint = f.fingerprint
                  /\ \A j \in OpsOf("create") : ops[j].fingerprint # f.fingerprint
  /\ (/\ LoopDone
      /\ prev.ran /\ prev.startEmpty
      /\ prev.findings = <<Catalogue[1]>> /\ prev.stats.created = 1
      /\ findings = <<Catalogue[2]>>)
     => (stats.created = 0 /\ stats.updated = 1)

\* the issue created for the finding at line 42 has just been updated by the
\* run that reports the finding at line 48
C9_Witness ==
  /\ pc = "done"
  /\ prev.ran /\ prev.startEmpty
  /\ prev.findings = <<Catalogue[1]>> /\ prev.stats.created = 1
  /\ findings = <<Catalogue[2]>>
  /\ Catalogue[1].locations[1].startLine # Catalogue[2].locations[1].startLine
  /\ stats.created = 0 /\ stats.updated = 1
  /\ Len(tracker) = 1
  /\ parseMetadata(tracker[1].body) = [fingerprint |-> Catalogue[2].fingerprint,
                                       lastSeenRun |-> runNumber]

\* the fingerprints of a finding list, in order
FingerprintsOf(fs) == [i \in DOMAIN fs |-> fs[i].fingerprint]

\* the locations of every member of fs that has the fingerprint fp
LocationsOf(fs, fp) ==
  UNION {Range(fs[i].locations) : i \in {j \in DOMAIN fs : fs[j].fingerprint = fp}}

\* the first member of fs that has the fingerprint fp
FirstMember(fs, fp) ==
  fs[CHOOSE i \in DOMAIN fs :
       /\ fs[i].fingerprint = fp
       /\ \A j \in 1..(i - 1) : fs[j].fingerprint # fp]

\* C10: deduplicateFindings(F) has one entry per fingerprint of F, in order of
\* first occurrence, and no more entries than F; each entry is the first
\* member of its group with the locations of the whole group, none twice by
\* (path, startLine); deduplicating the result again changes nothing.
C10_DedupIdempotent ==
  /\ pc = "unique" =>
       /\ FingerprintsOf(uniqueFindings) = Distinct(FingerprintsOf(findings))
       /\ \A i, j \in DOMAIN uniqueFindings :
            uniqueFindings[i].fingerprint = uniqueFindings[j].fingerprint => i = j
       /\ Len(uniqueFindings) <= Len(findings)
       /\ \A k \in DOMAIN uniqueFindings :
            \A u \in {uniqueFindings[k]} :
              /\ [u EXCEPT !.locations = << >>]
                   = [FirstMember(findings, u.fingerprint) EXCEPT !.locations = << >>]
              /\ Range(u.locations) = LocationsOf(findings, u.fingerprint)
              /\ \A a, b \in DOMAIN u.locations :
                   (/\ u.locations[a].path = u.locations[b].path
                    /\ u.locations[a].startLine = u.locations[b].startLine) => a = b
  /\ pc = "again" => uniqueFindings = deduplicateFindings(findings)

\* a list whose members share a fingerprint and a location has been
\* deduplicated twice: fewer entries, merged locations, one location dropped
C10_Witness ==
  /\ pc = "again"
  /\ Len(findings) = MaxInput
  /\ Len(uniqueFindings) = 2
  /\ \E k \in DOMAIN uniqueFindings :
       /\ Len(uniqueFindings[k].locations) = 2
       /\ Len(FirstMember(findings, uniqueFindings[k].fingerprint).locations) = 1
       /\ \E i, j \in DOMAIN findings :
            /\ i # j
            /\ findings[i].fingerprint = uniqueFindings[k].fingerprint
            /\ findings[j].fingerprint = uniqueFindings[k].fingerprint
            /\ Range(findings[i].locations) \cap Range(findings[j].locations) # {}

\* the whole title of a finding before truncation
FullTitle(finding) == Prefix \o <<" ">> \o finding.title \o locationHint(finding)

\* the 0-based indices at or before index limit where text has a space
SpacesUpTo(text, limit) == {i \in 0..limit : i < Len(text) /\ text[i + 1] = " "}

\* C11: a rendered title has at most 100 characters; a title of at most 100
\* characters is kept whole; a longer one is cut at its last space at or
\* before index 97 when that space lies fewer than 20 characters before
\* index 97 (index 78 to 97), otherwise at index 97, and ends with "..."
C11_TitleLength ==
  pc = "titled" =>
    \A full \in {FullTitle(findings[1])} : \A t \in {tracker[1].title} :
      \A sp \in {SpacesUpTo(full, TitleMaxLen - 3)} :
        /\ Len(t) <= TitleMaxLen
        /\ Len(full) <= TitleMaxLen => t = full
        /\ Len(full) > TitleMaxLen =>
             /\ Sub(t, Len(t) - 2, Len(t)) = Ellipsis
             /\ \A cut \in {IF sp = {} THEN 0 - 1
                              ELSE CHOOSE i \in sp : \A j \in sp : j <= i} :
                  IF cut > TitleMaxLen - 3 - 20
                  THEN t = Sub(full, 1, cut) \o Ellipsis
                  ELSE t = Sub(full, 1, TitleMaxLen - 3) \o Ellipsis

\* a title of more than 100 characters whose last space up to index 97 is
\* at index 78 has been cut there: 78 characters and the ellipsis
C11_Witness ==
  /\ pc = "titled"
  /\ Len(FullTitle(findings[1])) > TitleMaxLen
  /\ SpacesUpTo(FullTitle(findings[1]), TitleMaxLen - 3) # {}
  /\ \A i \in SpacesUpTo(FullTitle(findings[1]), TitleMaxLen - 3) : i <= 78
  /\ 78 \in SpacesUpTo(FullTitle(findings[1]), TitleMaxLen - 3)
  /\ Len(tracker[1].title) = 81

\* the CREATE and UPDATE operations of the run so far
Writes == OpsOf("create") \cup OpsOf("update")

\* the actionable finding an operation was issued for
FindingOf(o) ==
  actionableFindings[CHOOSE i \in 1..(idx - 1) :
                       actionableFindings[i].fingerprint = o.fingerprint]

\* C12: every CREATE and every UPDATE carries the base label and the
\* severity, confidence, effort, layer and tool labels of its finding, and
\* carries autofix:safe exactly when the finding's autofix is safe; the issue
\* written last by the operation bears the same labels.
C12_LabelCompleteness ==
  InRun =>
    \A k \in Writes : \A o \in {ops[k]} :
      /\ \E i \in 1..(idx - 1) : actionableFindings[i].fingerprint = o.fingerprint
      /\ \A f \in {FindingOf(o)} :
           /\ { <<"base", conf.label>>, <<"severity", f.severity>>,
                <<"confidence", f.confidence>>, <<"effort", f.effort>>,
                <<"layer", f.layer>>, <<"tool", f.tool>> } \subseteq Range(o.labels)
           /\ <<"autofix", "safe">> \in Range(o.labels) <=> f.autofix = "safe"
           /\ \A l \in Range(o.labels) :
                l[1] \in {"severity", "confidence", "effort", "layer", "tool"}
                  => l[2] = f[l[1]]
      /\ (\A j \in Writes : ops[j].number = o.number => j <= k)
           => tracker[o.number].labels = o.labels

\* a run that wrote an issue for a finding with a safe autofix and updated
\* an issue for a finding without one
C12_Witness ==
  /\ InRun
  /\ \E k \in Writes :
       FindingOf(ops[k]).autofix = "safe" /\ <<"autofix", "safe">> \in Range(ops[k].labels)
  /\ \E k \in OpsOf("update") :
       FindingOf(ops[k]).autofix # "safe" /\ <<"autofix", "safe">> \notin Range(ops[k].labels)

\* the sign of an integer
Sign(n) == IF n < 0 THEN 0 - 1 ELSE IF n > 0 THEN 1 ELSE 0

\* the four sort keys of a finding
SortKey(a) == <<a.severity, a.confidence, canonicalPath(a), canonicalLine(a)>>

\* a sorts strictly before b: higher severity, then higher confidence, then
\* smaller canonical path, then smaller canonical line
SortsBefore(a, b) ==
  \/ SEVERITY_ORDER[a.severity] > SEVERITY_ORDER[b.severity]
  \/ /\ a.severity = b.severity
     /\ \/ CONFIDENCE_ORDER[a.confidence] > CONFIDENCE_ORDER[b.confidence]
        \/ /\ a.confidence = b.confidence
           /\ \/ localeCompare(canonicalPath(a), canonicalPath(b)) < 0
              \/ /\ canonicalPath(a) = canonicalPath(b)
                 /\ canonicalLine(a) < canonicalLine(b)

\* the reorderings of the list fs
Reorderings(fs) ==
  {[i \in DOMAIN fs |-> fs[p[i]]] :
     p \in {q \in [DOMAIN fs -> DOMAIN fs] : \A i, j \in DOMAIN fs : q[i] = q[j] => i = j}}

TrackerAtStart ==
  [i \in DOMAIN existingIssues |->
     [number |-> existingIssues[i].number, state |-> existingIssues[i].state,
      title |-> existingIssues[i].title, labels |-> existingIssues[i].labels,
      body |-> [fingerprintMarker |-> existingIssues[i].metadata.fingerprint,
                runMarker |-> existingIssues[i].metadata.lastSeenRun, generated |-> 1]]]

\* the operations of another execution of the loop on the inputs of the
\* current run, the clock reading clock[i] at the i-th finding
Reexecution(clock) ==
  loopUpTo([tracker |-> TrackerAtStart, fingerprintMap |-> buildFingerprintMap(existingIssues),
            seenFingerprints |-> {}, stats |-> ZeroStats, ops |-> <<EnsureLabelsOp>>],
           existingIssues, actionableFindings, conf, runNumber, clock,
           Len(actionableFindings)).ops

\* the clock readings of another execution
Clocks == [DOMAIN actionableFindings -> 1..MaxClock]

\* a body, and the bodies of a sequence of operations, without the timestamp
Undated(body) == [body EXCEPT !.generated = 0]
UndatedOps(os) ==
  [k \in DOMAIN os |->
     IF "body" \in DOMAIN os[k] THEN [os[k] EXCEPT !.body = Undated(@)] ELSE os[k]]

Unresolved ==
  {i \in DOMAIN existingIssues :
     /\ existingIssues[i].state = "open"
     /\ existingIssues[i].metadata.fingerprint # NoFingerprint
     /\ existingIssues[i].metadata.fingerprint \notin seenFingerprints}

\* C15 as stated: a process that ends after a tracker operation failed has
\* skipped that operation only: it has gone through all of its findings, the
\* flap pass has closed or commented every open issue that was not seen, and
\* the duplicate pass has closed all but the kept issue of every group.
C15_SkipAndContinue ==
  /\ pc = "failedInLoop" => idx > Len(actionableFindings)
  /\ pc = "failedInResolved" =>
       \A i \in Unresolved : \E k \in DOMAIN ops :
         /\ ops[k].op \in {"close", "comment"}
         /\ ops[k].number = existingIssues[i].number
  /\ pc = "failedInDuplicates" =>
       \A i \in DOMAIN existingIssues : \A group \in {duplicateGroup(existingIssues, i)} :
         (existingIssues[i].state = "open" /\ Cardinality(group) > 1) =>
           \A j \in group \ {keepIssue(existingIssues, group)} :
             tracker[existingIssues[j].number].state = "closed"

\* the files given to main are not both well-formed
BadFiles(f) == f.findings # "ok" \/ f.context # "ok"

\* C16: when the findings file or the context file is missing or malformed,
\* the process ends rejected (exit code 1) without a tracker operation: no
\* label creation, create, update, close or comment, and the issues of the
\* tracker are as they were.
C16_RejectsBadInput ==
  /\ [](BadFiles(files) => (pc = "rejected" /\ ops = << >>))
  /\ [][(BadFiles(files') /\ pc # "rejected")
          => (pc' = "rejected" /\ ops' = << >> /\ tracker' = tracker)]_vars
  /\ [][(BadFiles(files') /\ pc = "rejected") => tracker' = tracker]_vars

\* after a run that created an issue, main was started with a well-formed
\* findings file and a malformed context file and has ended rejected
C16_Witness ==
  /\ pc = "rejected"
  /\ files = [findings |-> "ok", context |-> "malformed"]
  /\ tracker # << >>
  /\ ops = << >>

\* the characters of a label
LabelText(label) ==
  CASE label = "vibeCop" -> <<"v","i","b","e","C","o","p">>
    [] label = "vibeCheck" -> <<"v","i","b","e","C","h","e","c","k">>
    [] label = "custom" -> <<"c","u","s","t","o","m">>

\* text begins with the characters of start
BeginsWith(text, start) == Len(text) >= Len(start) /\ Sub(text, 1, Len(start)) = start

\* C17 as stated: the title of a created issue is "[<label>] " followed by
\* the finding title, where <label> is the base label of the configuration,
\* and the issue carries that label; without a configured label the base
\* label is "vibeCheck", so that the title begins with "[vibeCheck] ".
C17_LabelPrefix ==
  pc = "titled" =>
    /\ BeginsWith(tracker[1].title,
                  <<"[">> \o LabelText(conf.label) \o <<"]", " ">>
                    \o Sub(findings[1].title, 1, 10))
    /\ <<"base", conf.label>> \in Range(tracker[1].labels)
    /\ conf = issuesConfig(<< >>) =>
         /\ conf.label = "vibeCheck"
         /\ BeginsWith(tracker[1].title, <<"[">> \o LabelText("vibeCheck") \o <<"]", " ">>)

\* the CLOSE operations of the run so far
Closes == OpsOf("close")

\* the place of a post pass in the order (a), (b), (c)
PassOf(o) ==
  IF o.op = "comment" \/ o.why = "resolved" THEN 1 ELSE IF o.why = "superseded" THEN 2 ELSE 3

\* C18 as stated: in a run with close_resolved every CREATE and UPDATE
\* precedes the operations of the post passes, the passes act in the order
\* flap closure, supersession, duplicate collapse, no issue receives more
\* than one CLOSE, and stats.closed is the number of issues closed.
C18_PassOrderCloseOnce ==
  (InRun /\ conf.close_resolved) =>
    /\ \A k \in Writes : \A l \in Closes \cup OpsOf("comment") : k < l
    /\ \A k, l \in Closes \cup OpsOf("comment") :
         k < l => PassOf(ops[k]) <= PassOf(ops[l])
    /\ \A k, l \in Closes : ops[k].number = ops[l].number => k = l
    /\ pc = "done" => stats.closed = Cardinality({ops[k].number : k \in Closes})

\* f is a merged trunk finding of the sublinter (lower case) s
MergedFor(f, s) ==
  /\ f.tool = T_trunk
  /\ toLowerCase(FindingSublinter(f.title)) = s
  /\ \/ Includes(f.ruleId, <<"+">>)
     \/ Includes(f.title, <<"i","s","s","u","e","s"," ","a","c","r","o","s","s">>)
     \/ Includes(f.title, <<"o","c","c","u","r","r","e","n","c","e","s",")">>)

\* the fetched issues that a merged finding of the run supersedes: open, not
\* closed by the flap pass, fingerprint not seen, title of a single rule
Superseded ==
  {i \in DOMAIN existingIssues :
     /\ existingIssues[i].state = "open"
     /\ tracker[existingIssues[i].number].state = "open"
          \/ \E k \in Closes : ops[k].number = existingIssues[i].number /\ ops[k].why # "resolved"
     /\ existingIssues[i].metadata.fingerprint \notin seenFingerprints
     /\ isSingleRuleTitle(existingIssues[i].title)
     /\ \E j \in DOMAIN actionableFindings :
          MergedFor(actionableFindings[j], extractSublinterFromTitle(existingIssues[i].title))}

\* C19 as stated: with close_resolved, once the supersession pass has run,
\* every open fetched issue with an unseen fingerprint and a single-rule
\* title "[vibeCop] <sublinter>: <rule>" has been closed as superseded when
\* the actionable findings contain a merged trunk finding of its sublinter.
C19_Supersession ==
  (pc \in {"duplicates", "done"} /\ conf.close_resolved) =>
    \A i \in Superseded : \E k \in Closes :
      ops[k].number = existingIssues[i].number /\ ops[k].why = "superseded"

\* the fetched issues that are still open when the duplicate pass starts:
\* open when fetched and not closed by the flap pass or the supersession pass
StillOpen ==
  {i \in DOMAIN existingIssues :
     /\ existingIssues[i].state = "open"
     /\ \A k \in Closes :
          ops[k].number = existingIssues[i].number => ops[k].why = "duplicate"}

\* the still-open issues that share the normalized title of issue i
StillOpenGroup(i) ==
  {j \in StillOpen :
     normalizeIssueTitle(existingIssues[j].title) = normalizeIssueTitle(existingIssues[i].title)}

\* C20 as stated: the duplicate pass closes only issues that were still open
\* when it started, each as a duplicate of the highest-numbered issue of its
\* group, which stays open; of every group of two or more still-open issues
\* with equal normalized title exactly the highest-numbered one is left open.
C20_DuplicateCollapse ==
  (pc = "done" /\ conf.close_resolved) =>
    /\ \A k \in Closes :
         ops[k].why = "duplicate" =>
           \E i \in StillOpen :
             /\ existingIssues[i].number = ops[k].number
             /\ Cardinality(StillOpenGroup(i)) >= 2
             /\ \A j \in StillOpenGroup(i) : existingIssues[j].number <= ops[k].of
             /\ \E j \in StillOpenGroup(i) : existingIssues[j].number = ops[k].of
             /\ tracker[ops[k].of].state = "open"
    /\ \A i \in StillOpen :
         Cardinality(StillOpenGroup(i)) >= 2 =>
           \A j \in StillOpenGroup(i) :
             tracker[existingIssues[j].number].state = "open"
               <=> \A m \in StillOpenGroup(i) : existingIssues[m].number <= existingIssues[j].number

\* existing issue i is the open issue of finding f reported in another line
\* bucket: tool, rule, path, title and message are those of f, the bucket of
\* the marker is not, and the run no longer reports the finding at its old place
Drifted(i, f) ==
  LET fp == existingIssues[i].metadata.fingerprint
  IN /\ existingIssues[i].state = "open"
     /\ fp # NoFingerprint
     /\ fp[1] = f.tool /\ fp[2] = f.ruleId /\ fp[3] = f.locations[1].path
     /\ fp[5] = normalizeMessage(f.message)
     /\ fp[4] # lineBucket(f.locations[1].startLine)
     /\ existingIssues[i].title = generateIssueTitle(f)
     /\ \A j \in DOMAIN findings : findings[j].fingerprint # fp

\* the drifted findings of the run and their original issues
DriftPairs ==
  {p \in (DOMAIN existingIssues) \X (DOMAIN actionableFindings) :
     Drifted(p[1], actionableFindings[p[2]])}

\* no issue carries the fingerprint of f yet: the run in which f crossed
NewlyCrossed(f) == \A j \in DOMAIN existingIssues : existingIssues[j].metadata.fingerprint # f.fingerprint

CloseOpsOn(n) == {k \in DOMAIN ops : ops[k].op = "close" /\ ops[k].number = n}
UpdatesOf(n) == {k \in DOMAIN ops : ops[k].op = "update" /\ ops[k].number = n}
CreatesFor(fp) == {k \in DOMAIN ops : ops[k].op = "create" /\ ops[k].fingerprint = fp}

FetchedMap == buildFingerprintMap(existingIssues)

\* the existing issue the three indices give for finding f, probed in the
\* order fingerprint, tool and rule, sublinter of a trunk finding; 0 for none
ProbeInOrder(f) ==
  LET byRule == toolRuleLookup(existingIssues, toLowerCase(f.tool), toLowerCase(f.ruleId))
      bySub  == sublinterFallback(existingIssues, f, FindingSublinter(f.title))
  IN IF f.fingerprint \in DOMAIN FetchedMap THEN FetchedMap[f.fingerprint]
     ELSE IF byRule # 0 THEN byRule
     ELSE IF toLowerCase(f.tool) = T_trunk THEN bySub
     ELSE 0

\* the processed findings matched by a fallback only, to an open issue
FallbackMatched ==
  {k \in 1..(idx - 1) :
     /\ actionableFindings[k].fingerprint \notin DOMAIN FetchedMap
     /\ ProbeInOrder(actionableFindings[k]) # 0
     /\ existingIssues[ProbeInOrder(actionableFindings[k])].state = "open"}

\* C22: a processed finding is matched by the fingerprint index, else by the
\* tool and rule title index, else (trunk) by the sublinter index; a finding
\* matched to an open issue is one UPDATE of that issue, and when the match is
\* by fallback the prior fingerprint of the issue is in seenFingerprints and
\* the flap-protection pass neither closes nor comments on the issue.
C22_FallbackProtects ==
  (pc \in {"loop", "superseded", "duplicates", "done"}) =>
    /\ \A k \in 1..(idx - 1) :
         LET f  == actionableFindings[k]
             at == ProbeInOrder(f)
         IN IF at # 0 /\ existingIssues[at].state = "open"
            THEN /\ \E o \in UpdatesOf(existingIssues[at].number) : ops[o].fingerprint = f.fingerprint
                 /\ \A o \in OpsOf("update") :
                      ops[o].fingerprint = f.fingerprint => ops[o].number = existingIssues[at].number
                 /\ CreatesFor(f.fingerprint) = {}
            ELSE \A o \in OpsOf("update") : ops[o].fingerprint # f.fingerprint
    /\ \A k \in FallbackMatched :
         LET issue == existingIssues[ProbeInOrder(actionableFindings[k])]
         IN /\ issue.metadata.fingerprint # NoFingerprint =>
                 issue.metadata.fingerprint \in seenFingerprints
            /\ ClosesOf(issue.number, "resolved") = {}
            /\ CommentsOf(issue.number) = {}

\* the flap-protection pass has run over an issue that was updated by a
\* fallback match and whose own fingerprint no finding of the run has
C22_Witness ==
  /\ pc = "done"
  /\ conf.close_resolved
  /\ \E k \in FallbackMatched :
       LET issue == existingIssues[ProbeInOrder(actionableFindings[k])]
       IN /\ issue.metadata.fingerprint # NoFingerprint
          /\ \A j \in DOMAIN findings : findings[j].fingerprint # issue.metadata.fingerprint
          /\ UpdatesOf(issue.number) # {}
          /\ tracker[issue.number].state = "open"

\* the processed findings that matched existing issue i by a fallback
FallbackMatchesOf(i) == {k \in FallbackMatched : ProbeInOrder(actionableFindings[k]) = i}

\* C23 as stated: when two or more findings of a run match the same open
\* existing issue by fallback, the issue ends the run with the title, body and
\* fingerprint of the first of them in input order and no later finding of
\* them updates it.
C23_FirstWins ==
  (pc = "done") =>
    \A i \in DOMAIN existingIssues :
      Cardinality(FallbackMatchesOf(i)) >= 2 =>
        LET first == actionableFindings[FirstOf(FallbackMatchesOf(i))]
            n     == existingIssues[i].number
        IN /\ tracker[n].title = generateIssueTitle(first)
           /\ tracker[n].body.fingerprintMarker = first.fingerprint
           /\ \A o \in UpdatesOf(n) : ops[o].fingerprint = first.fingerprint

\* the scales of the claim, least first
SeverityScale == <<"info", "low", "medium", "high", "critical">>
ConfidenceScale == <<"low", "medium", "high">>

\* the place of value v on a scale
PlaceOn(scale, v) == CHOOSE i \in DOMAIN scale : scale[i] = v

\* finding f is at or above both thresholds of the configuration
Admitted(f) ==
  /\ PlaceOn(SeverityScale, f.severity) >= PlaceOn(SeverityScale, conf.severity_threshold)
  /\ PlaceOn(ConfidenceScale, f.confidence) >= PlaceOn(ConfidenceScale, conf.confidence_threshold)

\* C24: the filter keeps, in order, exactly the deduplicated findings whose
\* severity and confidence are at or above the thresholds on the scales
\* info < low < medium < high < critical and low < medium < high; the
\* threshold info rejects no finding for its severity; skippedBelowThreshold
\* is the number of deduplicated findings rejected.
C24_ThresholdFilter ==
  pc = "filtered" =>
    /\ actionableFindings = SelectSeq(uniqueFindings, Admitted)
    /\ conf.severity_threshold = "info" =>
         \A i \in DOMAIN uniqueFindings :
           PlaceOn(ConfidenceScale, uniqueFindings[i].confidence)
               >= PlaceOn(ConfidenceScale, conf.confidence_threshold)
             => \E j \in DOMAIN actionableFindings : actionableFindings[j] = uniqueFindings[i]
    /\ stats.skippedBelowThreshold =
         Cardinality({i \in DOMAIN uniqueFindings : ~Admitted(uniqueFindings[i])})

\* one finding kept and one rejected for its severity alone
C24_Witness ==
  /\ pc = "filtered"
  /\ Len(uniqueFindings) = 2
  /\ Len(actionableFindings) = 1
  /\ stats.skippedBelowThreshold = 1
  /\ \E i \in DOMAIN uniqueFindings :
       /\ ~Admitted(uniqueFindings[i])
       /\ uniqueFindings[i].severity = "high"
       /\ conf.severity_threshold = "critical"
       /\ conf.confidence_threshold = "low"

\* the text of a severity or confidence level
LevelText(level) ==
  CASE level = "critical" -> T_critical
    [] level = "high" -> T_high
    [] level = "medium" -> T_medium
    [] level = "low" -> T_low

\* C25 as stated: semgrep's severities critical, high, medium and low and its
\* confidences high, medium and low come out as themselves whatever the case
\* of their letters, and medium comes out only for medium itself or for a
\* value that is absent or not one of these.
C25_SemgrepPassThrough ==
  pc = "mapped" =>
    LET sev  == toLowerCase(findings[1].severity)
        cnf  == toLowerCase(findings[1].confidence)
        f    == uniqueFindings[1]
    IN /\ sev \in {T_critical, T_high, T_medium, T_low} => LevelText(f.severity) = sev
       /\ cnf \in {T_high, T_medium, T_low} => LevelText(f.confidence) = cnf
       /\ f.severity = "medium" => sev \notin {T_critical, T_high, T_low}
       /\ f.confidence = "medium" => cnf \notin {T_high, T_low}

\* the canonical start line of a finding
LineOf(f) == f.locations[1].startLine

\* the distance of two lines
LineShift(a, b) == IF LineOf(a) >= LineOf(b) THEN LineOf(a) - LineOf(b) ELSE LineOf(b) - LineOf(a)

MatchedClosed ==
  {k \in 1..(idx - 1) :
     /\ ProbeInOrder(actionableFindings[k]) # 0
     /\ existingIssues[ProbeInOrder(actionableFindings[k])].state = "closed"}

\* the operations of the loop that carry fingerprint fp
LoopOpsFor(fp) == {o \in OpsOf("create") \cup OpsOf("update") : ops[o].fingerprint = fp}

\* C27: in every run that reaches the loop, each processed finding causes
\* one UPDATE (matched an open issue), nothing (matched a closed issue), one
\* CREATE (no match, under the cap) or one skippedMaxReached; the counters
\* count exactly these, skippedBelowThreshold + created + updated +
\* skippedMaxReached + the findings matched to a closed issue is the number of
\* deduplicated findings once the loop is over, and skippedDuplicate is 0.
C27_StatsAccounting ==
  (pc \in {"loop", "superseded", "duplicates", "done"}) =>
    /\ stats.skippedDuplicate = 0
    /\ stats.created = Cardinality(OpsOf("create"))
    /\ stats.updated = Cardinality(OpsOf("update"))
    /\ uniqueFindings = deduplicateFindings(findings)
    /\ \A k \in 1..(idx - 1) :
         LET f  == actionableFindings[k]
             at == ProbeInOrder(f)
         IN /\ Cardinality(LoopOpsFor(f.fingerprint)) <= 1
            /\ at # 0 /\ existingIssues[at].state = "open" =>
                 \E o \in LoopOpsFor(f.fingerprint) : ops[o].op = "update"
            /\ at # 0 /\ existingIssues[at].state = "closed" => LoopOpsFor(f.fingerprint) = {}
            /\ at = 0 => \A o \in LoopOpsFor(f.fingerprint) : ops[o].op = "create"
    /\ stats.skippedMaxReached =
         Cardinality({k \in 1..(idx - 1) :
                        /\ ProbeInOrder(actionableFindings[k]) = 0
                        /\ LoopOpsFor(actionableFindings[k].fingerprint) = {}})
    /\ stats.skippedBelowThreshold + stats.created + stats.updated + stats.skippedMaxReached
         + Cardinality(MatchedClosed)
         = Len(uniqueFindings) - (Len(actionableFindings) - (idx - 1))
    /\ LoopDone => idx - 1 = Len(actionableFindings)

\* a run that ended with one finding below the thresholds or at the cap and
\* one finding matched to a closed issue
C27_Witness ==
  /\ pc = "done"
  /\ Cardinality(MatchedClosed) = 1
  /\ Len(uniqueFindings) = 2
  /\ stats.created + stats.updated + stats.skippedMaxReached + stats.skippedBelowThreshold = 1

\* the fingerprints of the findings of the run that the thresholds reject
RejectedFingerprints ==
  {uniqueFindings[i].fingerprint : i \in {j \in DOMAIN uniqueFindings : ~Admitted(uniqueFindings[j])}}

\* the processed findings matched by a fallback, to an issue in any state
MatchedByFallback ==
  {k \in 1..(idx - 1) :
     /\ actionableFindings[k].fingerprint \notin DOMAIN FetchedMap
     /\ ProbeInOrder(actionableFindings[k]) # 0}

\* the fingerprints that fallback-matched issues had when they were fetched
PriorFingerprints ==
  {existingIssues[ProbeInOrder(actionableFindings[k])].metadata.fingerprint :
     k \in MatchedByFallback} \ {NoFingerprint}

\* open issue i carries the fingerprint of a finding that the run reports and
\* the thresholds reject
BelowThresholdIssue(i) ==
  /\ existingIssues[i].state = "open"
  /\ existingIssues[i].metadata.fingerprint \in RejectedFingerprints

\* issue number n has been handled by the flap-protection pass as not
\* detected: closed as resolved at FLAP_PROTECTION_RUNS misses or more,
\* commented otherwise
TreatedAsNotDetected(i) ==
  LET n == existingIssues[i].number
  IN IF Misses(i) >= FLAP_PROTECTION_RUNS
     THEN Cardinality(ClosesOf(n, "resolved")) = 1 /\ CommentsOf(n) = {}
     ELSE ClosesOf(n, "resolved") = {} /\ Cardinality(CommentsOf(n)) = 1

\* C28 as stated: the fingerprint of a finding that the thresholds reject is
\* never in seenFingerprints, and with close_resolved the open issue of such
\* a finding is handled as not detected by the flap-protection pass.
C28_RejectedNeverSeen ==
  (pc \in {"loop", "superseded", "duplicates", "done"}) =>
    /\ RejectedFingerprints \cap seenFingerprints = {}
    /\ (pc # "loop" /\ conf.close_resolved) =>
         \A i \in DOMAIN existingIssues : BelowThresholdIssue(i) => TreatedAsNotDetected(i)

\* C28 amended: seenFingerprints is exactly the fingerprints of the processed
\* threshold-passing findings together with the prior fingerprints of the
\* issues they matched by fallback; the fingerprint of a rejected finding is
\* in it only as such a prior fingerprint, and with close_resolved the open
\* issue of a rejected finding whose fingerprint is not in it is handled as
\* not detected, while one whose fingerprint is in it is left alone by the
\* flap-protection pass.
C28_SeenFingerprints ==
  (pc \in {"loop", "superseded", "duplicates", "done"}) =>
    /\ actionableFindings = SelectSeq(uniqueFindings, Admitted)
    /\ seenFingerprints =
         {actionableFindings[k].fingerprint : k \in 1..(idx - 1)} \cup PriorFingerprints
    /\ RejectedFingerprints \cap seenFingerprints \subseteq PriorFingerprints
    /\ (pc # "loop" /\ conf.close_resolved) =>
         \A i \in DOMAIN existingIssues :
           BelowThresholdIssue(i) =>
             IF existingIssues[i].metadata.fingerprint \in PriorFingerprints
             THEN /\ ClosesOf(existingIssues[i].number, "resolved") = {}
                  /\ CommentsOf(existingIssues[i].number) = {}
             ELSE TreatedAsNotDetected(i)

\* the issue of a finding that is still reported, below the raised
\* thresholds, has been closed as resolved
C28_Witness ==
  /\ pc = "done"
  /\ \E i \in DOMAIN existingIssues :
       /\ BelowThresholdIssue(i)
       /\ existingIssues[i].metadata.fingerprint \notin seenFingerprints
       /\ ClosesOf(existingIssues[i].number, "resolved") # {}
       /\ tracker[existingIssues[i].number].state = "closed"

\* C29 as stated: an issue that a run updates is not closed by that run,
\* whichever pass it is.
C29_NoUpdateAndClose ==
  \A o \in OpsOf("update") : CloseOpsOn(ops[o].number) = {}

\* C30: after the flap-protection pass, an open issue with a fingerprint
\* marker and no readable lastSeenRun whose fingerprint the run has not seen
\* counts runNumber misses: it is closed as resolved, without a comment, in a
\* run numbered FLAP_PROTECTION_RUNS or more and commented on in an earlier
\* run; an open issue without a fingerprint marker is neither closed nor
\* commented on by the pass.
C30_UnreadableMetadata ==
  (pc \in {"superseded", "duplicates", "done"} /\ conf.close_resolved) =>
    \A i \in DOMAIN existingIssues :
      LET e == existingIssues[i]
      IN e.state = "open" =>
           /\ (/\ e.metadata.fingerprint # NoFingerprint
               /\ e.metadata.lastSeenRun = NoRun
               /\ e.metadata.fingerprint \notin seenFingerprints) =>
                IF runNumber >= FLAP_PROTECTION_RUNS
                THEN /\ Cardinality(ClosesOf(e.number, "resolved")) = 1
                     /\ \A k \in ClosesOf(e.number, "resolved") : ops[k].misses = runNumber
                     /\ CommentsOf(e.number) = {}
                     /\ tracker[e.number].state = "closed"
                ELSE /\ ClosesOf(e.number, "resolved") = {}
                     /\ Cardinality(CommentsOf(e.number)) = 1
                     /\ \A k \in CommentsOf(e.number) :
                          ops[k].remaining = FLAP_PROTECTION_RUNS - runNumber
           /\ e.metadata.fingerprint = NoFingerprint =>
                /\ ClosesOf(e.number, "resolved") = {}
                /\ CommentsOf(e.number) = {}

\* an issue that the previous run updated lost its run marker and is closed
\* by run FLAP_PROTECTION_RUNS at its first miss
C30_Witness ==
  /\ pc = "done"
  /\ runNumber = FLAP_PROTECTION_RUNS
  /\ prev.stats.updated = 1
  /\ \E i \in DOMAIN existingIssues :
       /\ existingIssues[i].state = "open"
       /\ existingIssues[i].metadata.fingerprint # NoFingerprint
       /\ existingIssues[i].metadata.lastSeenRun = NoRun
       /\ ClosesOf(existingIssues[i].number, "resolved") # {}

====
